---- MODULE Spec2Model ----
(***************************************************************************)
(* Model of amplifier_module_tool_memory.store.MemoryStore: the memories   *)
(* table, its FTS5 shadow table memories_fts with the three triggers that  *)
(* keep it in step, the CRUD operations add / get / update / delete with   *)
(* the eviction step _enforce_limit, the queries list_all / list_index /   *)
(* search (with _search_fallback) / get_timeline, and the sessions and     *)
(* session_summaries tables with create_session / complete_session /      *)
(* add_summary; the opening of a database file (_init_db and the two       *)
(* migrations, statement by statement); and the tools of tools.py that     *)
(* validate a dict of inputs before they call the store.                   *)
(*                                                                         *)
(* Specifications: Spec and SpecReopen (memory CRUD), SpecQuery (list and  *)
(* search over a store of the default size), SpecTimeline (memories,       *)
(* summaries and get_timeline), SpecSession (the sessions table),          *)
(* SpecTools (the tools), SpecOpen (opening old and interrupted files),    *)
(* SpecStore (CRUD and queries together), SpecFind (search_by_file and     *)
(* search_by_concept), SpecEvict (reopening with another max_memories and  *)
(* evictions that fail), SpecContext (get_context_for_session),            *)
(* SpecRecords (memories beside sessions, summaries and prompts),          *)
(* SpecRace (two writers, statement by statement).                         *)
(*                                                                         *)
(* Representation.                                                         *)
(*  - Free text (content, title, subtitle, one fact, one concept, one tag, *)
(*    one path) is a sequence of one-character strings.                    *)
(*  - Strings that the code only compares for equality (type, category,    *)
(*    project, session_id) are TLA+ strings; Python's None is the          *)
(*    reserved token None.                                                 *)
(*  - importance is a float in the code; the model counts it in tenths     *)
(*    (ImportanceOne tenths = 1.0).                                        *)
(*  - a row keeps the Python lists behind the *_json columns; JsonDumps    *)
(*    is applied wherever the code reads the serialized column.            *)
(*  - created_at and created_at_epoch are both taken from one              *)
(*    datetime.now() call; the model keeps the millisecond epoch, and      *)
(*    takes successive readings of the clock as non-decreasing.            *)
(*  - op, args, result and evicted record the last completed call, so     *)
(*    that properties can speak of what a call was given and returned.     *)
(***************************************************************************)
EXTENDS Bags, FiniteSets, Integers, Sequences, TLC

(***************************************************************************)
(* Bounds of the model.                                                    *)
(***************************************************************************)
MaxIds == 2          \* number of add calls (ids uuid4 can hand out)
MaxLimit == 1        \* largest configured max_memories
MaxAccess == 2       \* cap on accessed_count
MaxClock == 1        \* last value of the millisecond clock
MaxPrompts == 3      \* cap on prompt_count

(***************************************************************************)
(* Program constants.                                                      *)
(***************************************************************************)
OBSERVATION_TYPES ==
    {"bugfix", "feature", "refactor", "change", "discovery", "decision"}

MEMORY_CATEGORIES ==
    {"learning", "decision", "issue_solved", "preference", "pattern",
     "recipe", "coding_style", "tech_stack", "project_context",
     "communication", "general"}

ImportanceOne == 10  \* 1.0 in tenths
TitleLen == 50       \* content[:50]
Ellipsis == <<".", ".", ".">>
None == "<None>"

(***************************************************************************)
(* Texts used as inputs.                                                   *)
(***************************************************************************)
Py == <<"p", "y">>
Js == <<"j", "s">>
Tip == <<"t", "i", "p">>
Got == <<"g", "o", "t">>
LongText == [i \in 1..(TitleLen + 1) |-> "x"]

(***************************************************************************)
(* Pure helpers.                                                           *)
(***************************************************************************)
Min2(a, b) == IF a < b THEN a ELSE b
Max2(a, b) == IF a > b THEN a ELSE b

Prefix(s, n) == SubSeq(s, 1, Min2(n, Len(s)))

\* a clamp that forgets the lower end
Clamp_upper_only(x) == Min2(ImportanceOne, x)

\* max(0.0, min(1.0, importance))
Clamp(x) == Max2(0, Min2(ImportanceOne, x))

\* json.dumps of a list of strings: ["a", "b"]
RECURSIVE JsonItems(_)
JsonItems(l) ==
    IF l = <<>> THEN <<>>
    ELSE <<"\"">> \o Head(l) \o <<"\"">>
         \o (IF Len(l) > 1 THEN <<",", " ">> ELSE <<>>)
         \o JsonItems(Tail(l))

JsonDumps(l) == <<"[">> \o JsonItems(l) \o <<"]">>

(***************************************************************************)
(* State.                                                                  *)
(***************************************************************************)
VARIABLES
    memories,       \* rows of table memories
    memories_fts,   \* bag of the documents indexed by the FTS5 shadow table
    max_memories,   \* self.max_memories
    next_id,        \* number of ids handed out so far by uuid.uuid4()
    now,            \* the last reading of datetime.now(), in milliseconds
    op,             \* the last completed call (or step): its name,
    args,           \*   its arguments
    result,         \*   the value it returned
    evicted,        \*   and the ids its _enforce_limit removed
    fts_table,      \* whether the database file holds table memories_fts
    sessions,       \* rows of table sessions
    session_summaries,  \* rows of table session_summaries
    schema,         \* the other objects of the file: tables, columns of
                    \*   memories, indexes, version rows, triggers
    user_prompts,   \* rows of table user_prompts
    writers         \* two processes that share the file: how far each has
                    \*   come in its call, and what it holds in its locals

vars ==
    <<memories, memories_fts, max_memories, next_id, now, op, args, result,
      evicted, fts_table, sessions, session_summaries, schema, user_prompts,
      writers>>

(***************************************************************************)
(* Inputs.                                                                 *)
(***************************************************************************)
\* the defaults of the signature of add; a list argument left at None
\* becomes [] through `x or []`, which the model writes as <<>>
AddDefaults ==
    [content |-> <<>>, type |-> "change", title |-> <<>>, subtitle |-> <<>>,
     facts |-> <<>>, concepts |-> <<>>, files_read |-> <<>>,
     files_modified |-> <<>>, session_id |-> None, project |-> None,
     category |-> "general", importance |-> 5, tags |-> <<>>,
     metadata |-> <<>>, discovery_tokens |-> 0]

AddInputs ==
    { [AddDefaults EXCEPT !.content = Py],
      [AddDefaults EXCEPT !.content = LongText, !.type = "bogus",
                          !.category = "not-a-real-category",
                          !.importance = 20, !.facts = <<Tip>>,
                          !.concepts = <<Got>>],
      [AddDefaults EXCEPT !.content = Js, !.type = "feature",
                          !.title = Tip, !.category = "learning",
                          !.importance = -10, !.tags = <<Py>>] }

\* the keyword arguments of update that are not None
UpdateInputs ==
    { <<>>,
      ("type" :> "bogus") @@ ("category" :> "bogus") @@ ("importance" :> 20)
          @@ ("content" :> Js) @@ ("title" :> Got),
      ("type" :> "decision") @@ ("category" :> "pattern")
          @@ ("importance" :> 7) @@ ("facts" :> <<Py, Js>>)
          @@ ("concepts" :> <<Tip>>) @@ ("subtitle" :> Py)
          @@ ("tags" :> <<Got>>),
      ("type" :> "nope") @@ ("category" :> "nope"),
      ("importance" :> -10) }

Ids == 1..MaxIds

(***************************************************************************)
(* Rows, Memory objects and the shadow table.                              *)
(***************************************************************************)
\* a type stored as given
NormalizeType_unchecked(t) == t

NormalizeType(t) == IF t \in OBSERVATION_TYPES THEN t ELSE "change"

NormalizeCategory(c) == IF c \in MEMORY_CATEGORIES THEN c ELSE "general"

DeriveTitle(title, content) ==
    IF title = <<>> /\ content # <<>>
    THEN Prefix(content, TitleLen)
         \o (IF Len(content) > TitleLen THEN Ellipsis ELSE <<>>)
    ELSE title

\* the Memory that add builds from its normalized arguments
NewMemory(a, id, t) ==
    [id |-> id,
     type |-> NormalizeType(a.type),
     title |-> DeriveTitle(a.title, a.content),
     subtitle |-> a.subtitle,
     content |-> a.content,
     facts |-> a.facts,
     concepts |-> a.concepts,
     files_read |-> a.files_read,
     files_modified |-> a.files_modified,
     session_id |-> a.session_id,
     project |-> a.project,
     category |-> NormalizeCategory(a.category),
     importance |-> Clamp(a.importance),
     tags |-> a.tags,
     metadata |-> a.metadata,
     created_at_epoch |-> t,
     accessed_count |-> 0,
     discovery_tokens |-> a.discovery_tokens]

\* SQLite gives a table without INTEGER PRIMARY KEY the rowid max(rowid)+1
NextRowid(rows) ==
    IF rows = {} THEN 1
    ELSE (CHOOSE r \in {x.rowid : x \in rows} :
              \A q \in {x.rowid : x \in rows} : q <= r) + 1

AddField(rec, name, val) == (name :> val) @@ rec

DropField(rec, name) == [f \in DOMAIN rec \ {name} |-> rec[f]]

row_to_memory(row) == DropField(row, "rowid")

\* what the triggers hand to memories_fts for a row
FtsDoc(row) ==
    [rowid |-> row.rowid, title |-> row.title, subtitle |-> row.subtitle,
     content |-> row.content, facts_json |-> JsonDumps(row.facts),
     concepts_json |-> JsonDumps(row.concepts)]

memories_ai(fts, new) == fts (+) SetToBag({FtsDoc(new)})

\* a delete trigger that leaves the shadow entry behind
memories_ad_missing(fts, old) == fts

memories_ad(fts, old) == fts (-) SetToBag({FtsDoc(old)})

memories_au(fts, old, new) == memories_ai(memories_ad(fts, old), new)

(***************************************************************************)
(* SQL statements on db = [m |-> rows, f |-> shadow bag]; each fires the   *)
(* trigger of its kind once per affected row.                              *)
(***************************************************************************)
SqlInsert(db, row) == [m |-> db.m \cup {row}, f |-> memories_ai(db.f, row)]

SqlUpdate(db, old, new) ==
    [m |-> (db.m \ {old}) \cup {new}, f |-> memories_au(db.f, old, new)]

RECURSIVE SqlDelete(_, _)
SqlDelete(db, rows) ==
    IF rows = {} THEN db
    ELSE LET r == CHOOSE x \in rows : TRUE
         IN SqlDelete([m |-> db.m \ {r}, f |-> memories_ad(db.f, r)],
                      rows \ {r})

Lookup(rows, id) == {r \in rows : r.id = id}

(***************************************************************************)
(* Eviction: _enforce_limit.                                               *)
(***************************************************************************)
count(db) == Cardinality(db.m)

\* a pure recency order: ORDER BY created_at_epoch ASC
EvictBefore_oldest_first(a, b) == a.created_at_epoch <= b.created_at_epoch

\* ORDER BY accessed_count ASC, created_at_epoch ASC
EvictBefore(a, b) ==
    \/ a.accessed_count < b.accessed_count
    \/ /\ a.accessed_count = b.accessed_count
       /\ a.created_at_epoch <= b.created_at_epoch

\* the sets of rows that SELECT id ... ORDER BY ... LIMIT k may name; SQLite
\* leaves the order among rows with equal sort keys open
FirstRows(rows, k) ==
    {V \in SUBSET rows :
        /\ Cardinality(V) = Min2(k, Cardinality(rows))
        /\ \A v \in V : \A s \in rows \ V : EvictBefore(v, s)}

\* an eviction that removes one row too few
enforce_limit_one_short(db, max) ==
    IF count(db) <= max THEN {{}}
    ELSE FirstRows(db.m, count(db) - max - 1)

\* the sets of rows _enforce_limit may remove
enforce_limit(db, max) ==
    IF count(db) <= max THEN {{}}
    ELSE FirstRows(db.m, count(db) - max)

(***************************************************************************)
(* The operations as functions of the database; each yields the database   *)
(* it leaves and the value it returns.                                     *)
(***************************************************************************)
\* a get that answers an id it does not find with some other stored row
store_get_some_row(db, id) ==
    IF db.m = {}
    THEN [db |-> db, value |-> <<>>]
    ELSE LET row == CHOOSE r \in (IF Lookup(db.m, id) = {} THEN db.m
                                  ELSE Lookup(db.m, id)) : TRUE
             inc == [row EXCEPT !.accessed_count = @ + 1]
         IN [db |-> SqlUpdate(db, row, inc), value |-> <<row_to_memory(row)>>]

\* a get that leaves accessed_count as it finds it
store_get_uncounted(db, id) ==
    IF Lookup(db.m, id) = {}
    THEN [db |-> db, value |-> <<>>]
    ELSE [db |-> db,
          value |-> <<row_to_memory(CHOOSE r \in Lookup(db.m, id) : TRUE)>>]

store_get(db, id) ==
    IF Lookup(db.m, id) = {}
    THEN [db |-> db, value |-> <<>>]
    ELSE LET row == CHOOSE r \in Lookup(db.m, id) : TRUE
             inc == [row EXCEPT !.accessed_count = @ + 1]
         IN [db |-> SqlUpdate(db, row, inc), value |-> <<row_to_memory(row)>>]

\* an update that drops every field when one enum value is invalid
UpdateColumns_all_or_nothing(u) ==
    IF \/ ("type" \in DOMAIN u /\ u["type"] \notin OBSERVATION_TYPES)
       \/ ("category" \in DOMAIN u /\ u["category"] \notin MEMORY_CATEGORIES)
    THEN {}
    ELSE DOMAIN u

\* the columns named in the `updates` list
UpdateColumns(u) ==
    {c \in DOMAIN u \cap {"content", "title", "subtitle", "facts",
                          "concepts", "importance", "tags"} : TRUE}
    \cup {c \in DOMAIN u \cap {"type"} : u[c] \in OBSERVATION_TYPES}
    \cup {c \in DOMAIN u \cap {"category"} : u[c] \in MEMORY_CATEGORIES}

\* the value bound to the column in `params`
UpdateParam(u, c) == IF c = "importance" THEN Clamp(u[c]) ELSE u[c]

ApplyUpdate(row, u) ==
    [c \in DOMAIN row |->
        IF c \in UpdateColumns(u) THEN UpdateParam(u, c) ELSE row[c]]

\* an update that reads the record again even when it wrote nothing
store_update_reread(db, id, u) ==
    LET existing == store_get(db, id)
    IN IF existing.value = <<>> THEN [db |-> existing.db, value |-> <<>>]
       ELSE IF UpdateColumns(u) = {} THEN store_get(existing.db, id)
       ELSE LET row == CHOOSE r \in Lookup(existing.db.m, id) : TRUE
            IN store_get(SqlUpdate(existing.db, row, ApplyUpdate(row, u)), id)

store_update(db, id, u) ==
    LET existing == store_get(db, id)
    IN IF existing.value = <<>> THEN [db |-> existing.db, value |-> <<>>]
       ELSE IF UpdateColumns(u) = {} THEN existing
       ELSE LET row == CHOOSE r \in Lookup(existing.db.m, id) : TRUE
            IN store_get(SqlUpdate(existing.db, row, ApplyUpdate(row, u)), id)

\* a delete that reports success whatever rowcount says
store_delete_always_true(db, id) ==
    [db |-> SqlDelete(db, Lookup(db.m, id)), value |-> TRUE]

store_delete(db, id) ==
    [db |-> SqlDelete(db, Lookup(db.m, id)), value |-> Lookup(db.m, id) # {}]

\* the outcomes of add: one per set of rows _enforce_limit may remove
store_add(db, max, a, id, t) ==
    LET memory == NewMemory(a, id, t)
        row == AddField(memory, "rowid", NextRowid(db.m))
        inserted == SqlInsert(db, row)
    IN {[db |-> SqlDelete(inserted, V), value |-> memory,
         evicted |-> {r.id : r \in V}] :
            V \in enforce_limit(inserted, max)}

(***************************************************************************)
(* The objects of the database file besides the rows.                      *)
(*                                                                         *)
(* Columns of memories are named as the fields of the model's rows (facts  *)
(* for facts_json and so on); table memories_fts is tracked by fts_table.  *)
(***************************************************************************)
\* the columns _migrate_v1 adds when they are missing, in its order
V1Columns ==
    <<"type", "title", "subtitle", "facts", "concepts", "files_read",
      "files_modified", "session_id", "project", "created_at_epoch",
      "discovery_tokens">>

\* the statements of _init_db in their order: CREATE TABLE IF NOT EXISTS,
\* then CREATE INDEX IF NOT EXISTS; `on` names the column of memories an
\* index needs among those of V1Columns, "" if none
init_db_units ==
    <<[kind |-> "table", name |-> "schema_version", on |-> ""],
      [kind |-> "table", name |-> "memories", on |-> ""],
      [kind |-> "table", name |-> "sessions", on |-> ""],
      [kind |-> "table", name |-> "session_summaries", on |-> ""],
      [kind |-> "table", name |-> "user_prompts", on |-> ""],
      [kind |-> "index", name |-> "idx_memories_type", on |-> "type"],
      [kind |-> "index", name |-> "idx_memories_category", on |-> ""],
      [kind |-> "index", name |-> "idx_memories_created",
       on |-> "created_at_epoch"],
      [kind |-> "index", name |-> "idx_memories_importance", on |-> ""],
      [kind |-> "index", name |-> "idx_memories_session", on |-> "session_id"],
      [kind |-> "index", name |-> "idx_memories_project", on |-> "project"],
      [kind |-> "index", name |-> "idx_sessions_session_id", on |-> ""],
      [kind |-> "index", name |-> "idx_sessions_project", on |-> ""],
      [kind |-> "index", name |-> "idx_sessions_status", on |-> ""],
      [kind |-> "index", name |-> "idx_summaries_session", on |-> ""],
      [kind |-> "index", name |-> "idx_summaries_project", on |-> ""],
      [kind |-> "index", name |-> "idx_prompts_session", on |-> ""]>>

\* what the transaction of _migrate_v2_fts5 creates: the triggers, and the
\* shadow tables of session_summaries and user_prompts
V2Objects ==
    {"memories_ai", "memories_ad", "memories_au", "summaries_fts",
     "summaries_ai", "summaries_ad", "summaries_au", "prompts_fts",
     "prompts_ai", "prompts_ad"}

SeqRange(q) == {q[i] : i \in DOMAIN q}

\* the objects of a file that an open has brought to SCHEMA_VERSION
Migrated ==
    [tables |-> {u.name : u \in {x \in SeqRange(init_db_units) :
                                     x.kind = "table"}},
     columns |-> SeqRange(V1Columns),
     indexes |-> {u.name : u \in {x \in SeqRange(init_db_units) :
                                      x.kind = "index"}},
     version |-> {1, 2},
     objects |-> V2Objects]

(***************************************************************************)
(* Actions.                                                                *)
(***************************************************************************)
DB == [m |-> memories, f |-> memories_fts]

Commit(out, name, a) ==
    /\ op' = name
    /\ args' = a
    /\ result' = out.value
    /\ memories' = out.db.m
    /\ memories_fts' = out.db.f
    /\ evicted' = IF "evicted" \in DOMAIN out THEN out.evicted ELSE {}
    /\ UNCHANGED <<fts_table, sessions, session_summaries, schema,
                   user_prompts, writers>>

Init ==
    /\ memories = {}
    /\ memories_fts = EmptyBag
    /\ max_memories \in 0..MaxLimit
    /\ next_id = 0
    /\ now = 0
    /\ op = "open"
    /\ args = <<>>
    /\ result = <<>>
    /\ evicted = {}
    /\ fts_table = TRUE
    /\ sessions = {}
    /\ session_summaries = {}
    /\ schema = Migrated
    /\ user_prompts = {}
    /\ writers = <<>>

\* t is what datetime.now() reads in this call: not before the last reading
add(a, t) ==
    /\ next_id < MaxIds
    /\ next_id' = next_id + 1
    /\ now' = t
    /\ \E out \in store_add(DB, max_memories, a, next_id + 1, t) :
           Commit(out, "add", a)
    /\ UNCHANGED max_memories

AccessedOf(id) ==
    IF Lookup(memories, id) = {} THEN 0
    ELSE (CHOOSE r \in Lookup(memories, id) : TRUE).accessed_count

get(id) ==
    /\ AccessedOf(id) < MaxAccess
    /\ Commit(store_get(DB, id), "get", [id |-> id])
    /\ UNCHANGED <<max_memories, next_id, now>>

update(id, u) ==
    /\ AccessedOf(id) + (IF UpdateColumns(u) = {} THEN 1 ELSE 2) <= MaxAccess
    /\ Commit(store_update(DB, id, u), "update", [id |-> id, fields |-> u])
    /\ UNCHANGED <<max_memories, next_id, now>>

delete(id) ==
    /\ Commit(store_delete(DB, id), "delete", [id |-> id])
    /\ UNCHANGED <<max_memories, next_id, now>>

\* MemoryStore(db_path, max_memories) on the file of a store that is already
\* at schema version 2: _init_db and _run_migrations change nothing
Reopen(max) ==
    /\ max_memories' = max
    /\ op' = "open"
    /\ args' = [max_memories |-> max]
    /\ result' = <<>>
    /\ evicted' = {}
    /\ UNCHANGED <<memories, memories_fts, next_id, now, fts_table, sessions,
                   session_summaries, schema,
                   user_prompts, writers>>

Next ==
    \/ \E a \in AddInputs : \E t \in now..MaxClock : add(a, t)
    \/ \E id \in Ids : get(id)
    \/ \E id \in Ids : \E u \in UpdateInputs : update(id, u)
    \/ \E id \in Ids : delete(id)

Spec == Init /\ [][Next]_vars

NextReopen ==
    \/ Next
    \/ \E max \in 0..MaxLimit : Reopen(max)

SpecReopen == Init /\ [][NextReopen]_vars

TypeOK ==
    /\ next_id \in 0..MaxIds
    /\ now \in 0..MaxClock
    /\ max_memories \in 0..MaxLimit
    /\ \A r \in memories : r.id \in 1..next_id

(***************************************************************************)
(* Sessions: create_session and complete_session.                          *)
(*                                                                         *)
(* started_at and started_at_epoch come from one datetime.now(), and so do *)
(* completed_at and completed_at_epoch; the model keeps the epoch, <<>>    *)
(* standing for NULL.                                                      *)
(***************************************************************************)
SessionIds == {"s1", "s2"}

SessionOf(rows, sid) == {r \in rows : r.session_id = sid}

\* a create_session that leaves the counter of an existing session alone
store_create_session_no_count(rows, sid, project, prompt, t) ==
    IF SessionOf(rows, sid) # {}
    THEN LET new == {[r EXCEPT !.user_prompt = prompt] :
                        r \in SessionOf(rows, sid)}
         IN [rows |-> (rows \ SessionOf(rows, sid)) \cup new,
             value |-> CHOOSE r \in new : TRUE]
    ELSE LET row == [id |-> Cardinality(rows) + 1, session_id |-> sid,
                     project |-> project, user_prompt |-> prompt,
                     started_at_epoch |-> t, completed_at_epoch |-> <<>>,
                     status |-> "active", prompt_count |-> 1]
         IN [rows |-> rows \cup {row}, value |-> row]

\* the internal id is a fresh uuid: sessions are never deleted, so the
\* number of rows names one
store_create_session(rows, sid, project, prompt, t) ==
    IF SessionOf(rows, sid) # {}
    THEN LET new == {[r EXCEPT !.prompt_count = @ + 1,
                               !.user_prompt = prompt] :
                        r \in SessionOf(rows, sid)}
         IN [rows |-> (rows \ SessionOf(rows, sid)) \cup new,
             value |-> CHOOSE r \in new : TRUE]
    ELSE LET row == [id |-> Cardinality(rows) + 1, session_id |-> sid,
                     project |-> project, user_prompt |-> prompt,
                     started_at_epoch |-> t, completed_at_epoch |-> <<>>,
                     status |-> "active", prompt_count |-> 1]
         IN [rows |-> rows \cup {row}, value |-> row]

\* a complete_session that reports true whatever rowcount says
store_complete_session_always_true(rows, sid, status, t) ==
    [rows |-> (rows \ SessionOf(rows, sid))
              \cup {[r EXCEPT !.status = status,
                              !.completed_at_epoch = <<t>>] :
                       r \in SessionOf(rows, sid)},
     value |-> TRUE]

store_complete_session(rows, sid, status, t) ==
    [rows |-> (rows \ SessionOf(rows, sid))
              \cup {[r EXCEPT !.status = status,
                              !.completed_at_epoch = <<t>>] :
                       r \in SessionOf(rows, sid)},
     value |-> SessionOf(rows, sid) # {}]

\* a call on the sessions table: out is what it leaves and returns
CommitSession(out, name, a, t) ==
    /\ op' = name
    /\ args' = a
    /\ result' = out.value
    /\ sessions' = out.rows
    /\ now' = t
    /\ evicted' = {}
    /\ UNCHANGED <<memories, memories_fts, max_memories, next_id, fts_table,
                   session_summaries, schema,
                   user_prompts, writers>>

create_session(sid, project, prompt, t) ==
    /\ \A r \in SessionOf(sessions, sid) : r.prompt_count < MaxPrompts
    /\ CommitSession(store_create_session(sessions, sid, project, prompt, t),
                     "create_session",
                     [session_id |-> sid, project |-> project,
                      user_prompt |-> prompt], t)

complete_session(sid, status, t) ==
    CommitSession(store_complete_session(sessions, sid, status, t),
                  "complete_session", [session_id |-> sid, status |-> status],
                  t)

NextSession ==
    \/ \E sid \in SessionIds : \E project \in {None, "alpha"} :
           \E prompt \in {Py, Js} : \E t \in now..MaxClock :
               create_session(sid, project, prompt, t)
    \/ \E sid \in SessionIds : \E status \in {"completed", "bogus"} :
           \E t \in now..MaxClock : complete_session(sid, status, t)

SpecSession == Init /\ [][NextSession]_vars

(***************************************************************************)
(* Properties.                                                             *)
(***************************************************************************)
StoredIds == {r.id : r \in memories}

RowOf(rows, id) == CHOOSE r \in rows : r.id = id

\* a step of add hands out an id; a step of another call leaves next_id
\* alone and names the call in op
IsAddStep == next_id' = next_id + 1

IsCallStep(name) == next_id' = next_id /\ op' = name

\* C1: from an empty store configured with max_memories = N, count() is at
\* most N after every completed add, get, update or delete.
C1_CountWithinLimit == Cardinality(memories) <= max_memories

\* an add has just filled the store past its limit and eviction cut it back
C1_Witness ==
    /\ op = "add"
    /\ max_memories >= 1
    /\ Cardinality(memories) = max_memories
    /\ evicted # {}
    /\ result.id \notin evicted

C3_AddThenGetPresent ==
    [][(/\ op = "add"
        /\ IsCallStep("get")
        /\ args'.id = result.id
        /\ max_memories >= 1)
       => /\ result' # <<>>
          /\ result'[1].content = args.content
    ]_vars

\* C4: the record returned by the first get after add reports
\* accessed_count = 1.
C4_FirstGetReportsOne ==
    [][(/\ op = "add"
        /\ IsCallStep("get")
        /\ args'.id = result.id
        /\ result' # <<>>)
       => result'[1].accessed_count = 1
    ]_vars

\* C5: after any sequence of add and update calls every stored importance is
\* in [0, 1]: an input above 1 is stored as 1.0, one below 0 as 0.0, one
\* inside the range as given.
C5_ImportanceClamped ==
    /\ \A r \in memories : 0 <= r.importance /\ r.importance <= 10
    /\ \A r \in memories :
          LET given ==
                  IF op = "add" /\ result.id = r.id
                  THEN <<args.importance>>
                  ELSE IF /\ op = "update"
                          /\ args.id = r.id
                          /\ "importance" \in DOMAIN args.fields
                  THEN <<args.fields.importance>>
                  ELSE <<>>
          IN \A i \in DOMAIN given :
                r.importance = IF given[i] > 10 THEN 10
                               ELSE IF given[i] < 0 THEN 0
                               ELSE given[i]

\* an update with importance 2.0 left 1.0 in the row
C5_Witness ==
    /\ op = "update"
    /\ "importance" \in DOMAIN args.fields
    /\ args.fields.importance > 10
    /\ \E r \in memories : r.id = args.id /\ r.importance = 10

\* C6: after any sequence of add and update calls every stored type is one
\* of the six observation types and every stored category one of the eleven
\* categories; add stores an invalid type as 'change' and an invalid category
\* as 'general'.
C6_EnumsClosed ==
    /\ \A r \in memories :
          /\ r.type \in {"bugfix", "feature", "refactor", "change",
                         "discovery", "decision"}
          /\ r.category \in {"learning", "decision", "issue_solved",
                             "preference", "pattern", "recipe",
                             "coding_style", "tech_stack", "project_context",
                             "communication", "general"}
    /\ op = "add" =>
          \A r \in memories : r.id = result.id =>
              /\ r.type = IF args.type \in OBSERVATION_TYPES
                          THEN args.type ELSE "change"
              /\ r.category = IF args.category \in MEMORY_CATEGORIES
                              THEN args.category ELSE "general"

\* an add with a type and a category outside the sets stored the defaults
C6_Witness ==
    /\ op = "add"
    /\ args.type \notin OBSERVATION_TYPES
    /\ args.category \notin MEMORY_CATEGORIES
    /\ \E r \in memories :
          r.id = result.id /\ r.type = "change" /\ r.category = "general"

\* C7: the shadow index holds exactly one entry for each stored memory,
\* carrying its current title, subtitle, content, facts and concepts, and no
\* entry for a memory that was deleted or evicted.
C7_ShadowInStep ==
    /\ \A r \in memories :
          CopiesIn([rowid |-> r.rowid, title |-> r.title,
                    subtitle |-> r.subtitle, content |-> r.content,
                    facts_json |-> JsonDumps(r.facts),
                    concepts_json |-> JsonDumps(r.concepts)],
                   memories_fts) = 1
    /\ \A d \in BagToSet(memories_fts) :
          /\ \E r \in memories : r.rowid = d.rowid
          /\ \A e \in BagToSet(memories_fts) : e.rowid = d.rowid => e = d

\* an update rewrote indexed fields of a memory whose rowid an evicted or
\* deleted memory held before
C7_Witness ==
    /\ op = "update"
    /\ "content" \in DOMAIN args.fields
    /\ \E r \in memories :
          /\ r.id = args.id
          /\ r.id > r.rowid
          /\ r.content = args.fields.content
          /\ BagCardinality(memories_fts) = 1

\* C8: delete of a stored id returns true and lowers count() by one; a
\* repeated delete of the id, or a delete of an id never stored, returns
\* false and changes nothing.
C8_DeleteOnce ==
    [][IsCallStep("delete") =>
        LET id == args'.id
        IN /\ id \in StoredIds =>
                /\ result' = TRUE
                /\ Cardinality(memories') = Cardinality(memories) - 1
                /\ memories' = {r \in memories : r.id # id}
           /\ id \notin StoredIds =>
                /\ result' = FALSE
                /\ memories' = memories
                /\ memories_fts' = memories_fts
           /\ (op = "delete" /\ args.id = id) =>
                result' = FALSE
    ]_vars

\* a delete of an id that an earlier call removed returned false
C8_Witness ==
    /\ op = "delete"
    /\ result = FALSE
    /\ args.id <= next_id

\* C9: update of a stored memory with no recognized field supplied returns
\* the record as it was before the call.
C9_EmptyUpdateReturnsRecord ==
    [][(/\ IsCallStep("update")
        /\ DOMAIN args'.fields = {}
        /\ args'.id \in StoredIds)
       => result' = <<row_to_memory(RowOf(memories, args'.id))>>
    ]_vars

\* an update without fields returned a record that had been read before
C9_Witness ==
    /\ op = "update"
    /\ DOMAIN args.fields = {}
    /\ result # <<>>
    /\ result[1].accessed_count >= 1

\* C10: in one update call a type or category outside its closed set is
\* dropped while every other supplied field is applied, a valid type or
\* category is applied, and a supplied importance is clamped to [0, 1].
C10_UpdateAppliesValid ==
    [][(IsCallStep("update") /\ args'.id \in StoredIds) =>
        LET u == args'.fields
            old == RowOf(memories, args'.id)
        IN /\ args'.id \in {r.id : r \in memories'}
           /\ LET new == RowOf(memories', args'.id)
              IN /\ new.type =
                        IF "type" \in DOMAIN u /\ u.type \in OBSERVATION_TYPES
                        THEN u.type ELSE old.type
                 /\ new.category =
                        IF /\ "category" \in DOMAIN u
                           /\ u.category \in MEMORY_CATEGORIES
                        THEN u.category ELSE old.category
                 /\ \A f \in {"content", "title", "subtitle", "facts",
                              "concepts", "tags"} :
                        new[f] = IF f \in DOMAIN u THEN u[f] ELSE old[f]
                 /\ new.importance =
                        IF "importance" \in DOMAIN u
                        THEN (IF u.importance > 10 THEN 10
                              ELSE IF u.importance < 0 THEN 0
                              ELSE u.importance)
                        ELSE old.importance
    ]_vars

\* an update with an invalid type and category applied its content and its
\* clamped importance, and the row kept its earlier type
C10_Witness ==
    /\ op = "update"
    /\ "type" \in DOMAIN args.fields
    /\ args.fields.type \notin OBSERVATION_TYPES
    /\ "content" \in DOMAIN args.fields
    /\ \E r \in memories :
          /\ r.id = args.id
          /\ r.content = args.fields.content
          /\ r.importance = 10
          /\ r.type = "feature"

(***************************************************************************)
(* Queries: list_all and list_index.                                       *)
(*                                                                         *)
(* An Optional[int] or Optional[float] argument is a sequence: <<>> for    *)
(* None, <<n>> for the number n.  An Optional[str] argument is a string or *)
(* the token None.  A list argument left at None is <<>>.                  *)
(***************************************************************************)
DefaultMaxMemories == 1000   \* max_memories: int = 1000
DefaultIndexLimit == 50      \* list_index(limit: int = 50)

Hour == 3600000              \* 3600 * 1000 milliseconds

\* the readings of the millisecond clock taken by the adds of the timeline
\* specification: two either side of a window of one hour around Hour + 1
QueryEpochs == {0, 1, Hour + 1, 2 * Hour + 1, 2 * Hour + 2}

PyTip == <<"P", "y", " ", "t", "i", "p">>
JsPy == <<"j", "s", "-", "p", "y">>     \* a hyphenated word

QueryAddInputs ==
    { [AddDefaults EXCEPT !.content = Py, !.project = "alpha",
                          !.category = "learning",
                          !.concepts = <<Got, JsPy>>],
      [AddDefaults EXCEPT !.content = Js, !.type = "feature",
                          !.importance = 9, !.session_id = "s1"],
      [AddDefaults EXCEPT !.content = PyTip, !.importance = 0,
                          !.tags = <<Js>>, !.project = "alpha"] }

\* str.lower() on the letters the inputs use
UpperCase == <<"P", "Y", "J", "S", "T", "I", "G", "O">>
LowerCase == <<"p", "y", "j", "s", "t", "i", "g", "o">>

LowerChar(c) ==
    IF \E i \in DOMAIN UpperCase : UpperCase[i] = c
    THEN LowerCase[CHOOSE i \in DOMAIN UpperCase : UpperCase[i] = c]
    ELSE c

Lower(s) == [i \in DOMAIN s |-> LowerChar(s[i])]

\* `sub in s` of Python, instr(s, sub) > 0 of SQL
Contains(s, sub) ==
    \E k \in 0..(Len(s) - Len(sub)) :
        \A i \in 1..Len(sub) : s[k + i] = sub[i]

\* bool(x) for an Optional[str]
Truthy(x) == x # None /\ x # ""

\* concepts_json LIKE '%"concept"%' for a concept without % ; LIKE ignores
\* the case of ASCII letters, and _ in the pattern stands for any character
LikeQuoted(json, concept) ==
    LET text == Lower(json)
        pattern == Lower(<<"\"">> \o concept \o <<"\"">>)
    IN \E k \in 0..(Len(text) - Len(pattern)) :
           \A i \in 1..Len(pattern) :
               pattern[i] = "_" \/ text[k + i] = pattern[i]

ListDefaults ==
    [limit |-> <<>>, type |-> None, category |-> None, concepts |-> <<>>,
     project |-> None, session_id |-> None, min_importance |-> <<>>,
     since_epoch |-> <<>>]

ListInputs ==
    { ListDefaults,
      [ListDefaults EXCEPT !.min_importance = <<5>>],
      [ListDefaults EXCEPT !.min_importance = <<0>>],
      [ListDefaults EXCEPT !.min_importance = <<6>>],
      [ListDefaults EXCEPT !.min_importance = <<5>>, !.project = "alpha"],
      [ListDefaults EXCEPT !.min_importance = <<0>>, !.category = "learning",
                           !.since_epoch = <<1>>],
      [ListDefaults EXCEPT !.min_importance = <<5>>, !.type = "feature",
                           !.session_id = "s1"],
      [ListDefaults EXCEPT !.concepts = <<Tip, Got>>],
      [ListDefaults EXCEPT !.since_epoch = <<1>>],
      [ListDefaults EXCEPT !.limit = <<0>>],
      [ListDefaults EXCEPT !.limit = <<1>>],
      [ListDefaults EXCEPT !.limit = <<2>>],
      [ListDefaults EXCEPT !.limit = <<-1>>],
      [ListDefaults EXCEPT !.limit = <<1>>, !.project = "alpha"] }

\* a filter that leaves out the memories on the boundary
ListWhere_strict(rows, f) ==
    {r \in rows :
        /\ Truthy(f.type) => r.type = f.type
        /\ Truthy(f.category) => r.category = f.category
        /\ Truthy(f.project) => r.project = f.project
        /\ Truthy(f.session_id) => r.session_id = f.session_id
        /\ f.min_importance # <<>> => r.importance > f.min_importance[1]
        /\ f.since_epoch # <<>> => r.created_at_epoch >= f.since_epoch[1]
        /\ f.concepts # <<>> =>
              \E i \in DOMAIN f.concepts :
                  LikeQuoted(JsonDumps(r.concepts), f.concepts[i])}

\* the rows the WHERE clause of list_all keeps
ListWhere(rows, f) ==
    {r \in rows :
        /\ Truthy(f.type) => r.type = f.type
        /\ Truthy(f.category) => r.category = f.category
        /\ Truthy(f.project) => r.project = f.project
        /\ Truthy(f.session_id) => r.session_id = f.session_id
        /\ f.min_importance # <<>> => r.importance >= f.min_importance[1]
        /\ f.since_epoch # <<>> => r.created_at_epoch >= f.since_epoch[1]
        /\ f.concepts # <<>> =>
              \E i \in DOMAIN f.concepts :
                  LikeQuoted(JsonDumps(r.concepts), f.concepts[i])}

\* ORDER BY importance DESC, created_at_epoch DESC
ListBefore(a, b) ==
    \/ a.importance > b.importance
    \/ /\ a.importance = b.importance
       /\ a.created_at_epoch >= b.created_at_epoch

\* ORDER BY created_at_epoch DESC
NewestFirst(a, b) == a.created_at_epoch >= b.created_at_epoch

\* whether row a may come before row b under an ORDER BY clause; the bm25
\* rank of ORDER BY fts.rank is left open, any order may come out
Before(order, a, b) ==
    CASE order = "importance" -> ListBefore(a, b)
      [] order = "newest" -> NewestFirst(a, b)
      [] order = "rank" -> TRUE

\* the orders in which SELECT ... ORDER BY may deliver the rows; the order
\* among rows with equal sort keys is open
OrderBy(rows, order) ==
    {s \in [1..Cardinality(rows) -> rows] :
        /\ \A i, j \in DOMAIN s : i # j => s[i] # s[j]
        /\ \A i, j \in DOMAIN s : i < j => Before(order, s[i], s[j])}

\* LIMIT n: a negative n is no limit
SqlLimit(s, n) == IF n < 0 THEN s ELSE Prefix(s, n)

rows_to_memories(s) == [i \in DOMAIN s |-> row_to_memory(s[i])]

\* the lists list_all may return
store_list_all(db, f) ==
    {rows_to_memories(IF f.limit # <<>> /\ f.limit[1] # 0
                      THEN SqlLimit(s, f.limit[1]) ELSE s) :
        s \in OrderBy(ListWhere(db.m, f), "importance")}

\* a query: it returns a value and writes nothing
Answer(value, name, a) ==
    /\ op' = name
    /\ args' = a
    /\ result' = value
    /\ evicted' = {}
    /\ UNCHANGED <<memories, memories_fts, max_memories, next_id, now,
                   fts_table, sessions, session_summaries, schema,
                   user_prompts, writers>>

list_all(f) ==
    \E value \in store_list_all(DB, f) : Answer(value, "list_all", f)

\* Memory.to_index; created_at is kept as the epoch it was taken from
to_index(m) ==
    [id |-> m.id, type |-> m.type, title |-> m.title,
     subtitle |-> m.subtitle, concepts |-> m.concepts,
     created_at |-> m.created_at_epoch,
     token_estimate |-> Len(m.content) \div 4]

IndexInputs ==
    { [limit |-> <<DefaultIndexLimit>>, project |-> None,
       since_epoch |-> <<>>],
      [limit |-> <<1>>, project |-> None, since_epoch |-> <<1>>],
      [limit |-> <<0>>, project |-> "alpha", since_epoch |-> <<>>] }

\* the filters list_index hands to list_all
IndexFilter(f) ==
    [ListDefaults EXCEPT !.limit = f.limit, !.project = f.project,
                         !.since_epoch = f.since_epoch]

store_list_index(db, f) ==
    {[i \in DOMAIN l |-> to_index(l[i])] :
        l \in store_list_all(db, IndexFilter(f))}

list_index(f) ==
    \E value \in store_list_index(DB, f) : Answer(value, "list_index", f)

(***************************************************************************)
(* search and _search_fallback.                                            *)
(***************************************************************************)
\* the characters of the model's texts that are neither letters nor digits
Punctuation == {" ", "\"", "[", "]", ",", "-", "."}

\* the maximal runs of s without a character of seps, in order
RECURSIVE SplitOn(_, _)
SplitOn(s, seps) ==
    IF s = <<>> THEN <<>>
    ELSE IF Head(s) \in seps THEN SplitOn(Tail(s), seps)
    ELSE LET stops == {k \in DOMAIN s : s[k] \in seps} \cup {Len(s) + 1}
             n == CHOOSE k \in stops : \A q \in stops : k <= q
         IN <<SubSeq(s, 1, n - 1)>> \o SplitOn(SubSeq(s, n, Len(s)), seps)

SearchInputs ==
    { [query |-> q, limit |-> 10, type |-> None, project |-> None] :
        q \in {Js, Tip, <<"t", "i">>, <<"T", "I", "P">>, Got,
               <<"z", "z">>, Py \o <<" ">> \o Js,
               Py \o <<" ">> \o Py \o <<" ">> \o Js, JsPy,
               Py \o <<" ", "\"">>, <<>>} }
    \cup { [query |-> Py, limit |-> 0, type |-> None, project |-> None],
           [query |-> Py, limit |-> 1, type |-> None, project |-> None],
           [query |-> Py, limit |-> 1, type |-> None, project |-> "alpha"],
           [query |-> Py, limit |-> 10, type |-> "feature",
            project |-> None],
           [query |-> Py, limit |-> 10, type |-> "change",
            project |-> "alpha"] }
    \cup { [query |-> Py \o <<" ">> \o Py \o <<" ">> \o Js \o <<" ", "\"">>,
            limit |-> 1, type |-> None, project |-> None] }

\* MATCH ? raises OperationalError.  The queries of the model are words
\* separated by spaces; FTS5 reads words of letters and digits as terms
\* joined by AND, and rejects an empty query, a word with a hyphen and an
\* unbalanced quote.
Fts5Rejects(query) ==
    \/ SplitOn(query, {" "}) = <<>>
    \/ \E i \in DOMAIN query : query[i] \in Punctuation \ {" "}

\* the tokens the unicode61 tokenizer indexes for a column: runs of letters
\* and digits, case folded
Fts5Tokens(text) ==
    LET t == SplitOn(Lower(text), Punctuation) IN {t[i] : i \in DOMAIN t}

\* the rows of memories joined to a shadow entry every term of the query
\* occurs in, filtered by type and project
Fts5Match(db, q) ==
    LET terms == SplitOn(Lower(q.query), {" "})
        hit(d) == \A i \in DOMAIN terms :
                      terms[i] \in Fts5Tokens(d.title)
                                   \cup Fts5Tokens(d.subtitle)
                                   \cup Fts5Tokens(d.content)
                                   \cup Fts5Tokens(d.facts_json)
                                   \cup Fts5Tokens(d.concepts_json)
    IN {m \in db.m :
           /\ \E d \in BagToSet(db.f) : d.rowid = m.rowid /\ hit(d)
           /\ Truthy(q.type) => m.type = q.type
           /\ Truthy(q.project) => m.project = q.project}

\* the text _search_fallback looks the terms up in
Searchable(row) ==
    Lower(row.title) \o <<" ">> \o Lower(row.subtitle) \o <<" ">>
    \o Lower(row.content) \o <<" ">> \o Lower(JsonDumps(row.facts))
    \o <<" ">> \o Lower(JsonDumps(row.tags))

\* sum(1 for term in search_terms if term in searchable)
Matches(row, query) ==
    LET terms == SplitOn(Lower(query), {" "})
    IN Cardinality({i \in DOMAIN terms : Contains(Searchable(row), terms[i])})

\* matches * memory.importance, in tenths
Score(row, query) == Matches(row, query) * row.importance

\* list.sort(key, reverse=True): descending by key, equal keys keep their
\* order
SortByScore(s, query) ==
    LET p == CHOOSE f \in [DOMAIN s -> DOMAIN s] :
                 /\ \A i, j \in DOMAIN s : i # j => f[i] # f[j]
                 /\ \A i, j \in DOMAIN s : i < j =>
                       \/ Score(s[f[i]], query) > Score(s[f[j]], query)
                       \/ /\ Score(s[f[i]], query) = Score(s[f[j]], query)
                          /\ f[i] < f[j]
    IN [i \in DOMAIN s |-> s[p[i]]]

\* results[:limit] for limit >= 0
store_search_fallback(db, q) ==
    LET rows == {m \in db.m : /\ Truthy(q.type) => m.type = q.type
                              /\ Truthy(q.project) => m.project = q.project}
        matched(r) == Matches(r, q.query) > 0
    IN {rows_to_memories(Prefix(SortByScore(SelectSeq(s, matched), q.query),
                                q.limit)) :
           s \in OrderBy(rows, "importance")}

\* a search that answers a failure of the engine with an empty list
store_search_no_fallback(db, fts, q) ==
    IF ~fts \/ Fts5Rejects(q.query)
    THEN {<<>>}
    ELSE {rows_to_memories(SqlLimit(s, q.limit)) :
             s \in OrderBy(Fts5Match(db, q), "rank")}

\* the lists search may return on a database with (fts) or without the
\* table memories_fts
store_search(db, fts, q) ==
    IF ~fts \/ (Fts5Rejects(q.query) /\ q.limit # 0)
    THEN store_search_fallback(db, q)
    ELSE {rows_to_memories(SqlLimit(s, q.limit)) :
             s \in OrderBy(IF Fts5Rejects(q.query) THEN {}
                           ELSE Fts5Match(db, q), "rank")}

search(q) ==
    \E value \in store_search(DB, fts_table, q) : Answer(value, "search", q)

\* the file loses table memories_fts (it is dropped from outside, no call
\* of the store does it)
lose_index ==
    /\ fts_table
    /\ fts_table' = FALSE
    /\ op' = "lose_index"
    /\ args' = <<>>
    /\ result' = <<>>
    /\ evicted' = {}
    /\ UNCHANGED <<memories, memories_fts, max_memories, next_id, now,
                   sessions, session_summaries, schema,
                   user_prompts, writers>>

\* without the table the INSERT trigger fails: add raises OperationalError
\* and the insert is rolled back
add_raises(a) ==
    /\ ~fts_table
    /\ Answer(<<>>, "add_raises", a)

(***************************************************************************)
(* Summaries and get_timeline.                                             *)
(***************************************************************************)
SummaryDefaults ==
    [session_id |-> "s1", request |-> <<>>, investigated |-> <<>>,
     learned |-> <<>>, completed |-> <<>>, next_steps |-> <<>>,
     notes |-> <<>>, files_read |-> <<>>, files_edited |-> <<>>,
     project |-> None, discovery_tokens |-> 0]

SummaryInputs ==
    { [SummaryDefaults EXCEPT !.request = Py],
      [SummaryDefaults EXCEPT !.learned = Tip, !.project = "alpha",
                              !.session_id = "s2"] }

\* an add_summary that keeps one summary per session (INSERT OR REPLACE on
\* the session_id)
add_summary_replaces(a, t) ==
    /\ next_id < MaxIds
    /\ next_id' = next_id + 1
    /\ now' = t
    /\ session_summaries' =
           {s \in session_summaries : s.session_id # a.session_id}
           \cup {AddField(AddField(a, "id", next_id + 1),
                          "created_at_epoch", t)}
    /\ op' = "add_summary"
    /\ args' = a
    /\ result' = AddField(AddField(a, "id", next_id + 1),
                          "created_at_epoch", t)
    /\ evicted' = {}
    /\ UNCHANGED <<memories, memories_fts, max_memories, fts_table, sessions,
                   schema, user_prompts, writers>>

\* add_summary inserts one row; the session_id is not looked up
add_summary(a, t) ==
    /\ next_id < MaxIds
    /\ next_id' = next_id + 1
    /\ now' = t
    /\ session_summaries' =
           session_summaries
           \cup {AddField(AddField(a, "id", next_id + 1),
                          "created_at_epoch", t)}
    /\ op' = "add_summary"
    /\ args' = a
    /\ result' = AddField(AddField(a, "id", next_id + 1),
                          "created_at_epoch", t)
    /\ evicted' = {}
    /\ UNCHANGED <<memories, memories_fts, max_memories, fts_table, sessions,
                   schema,
                   user_prompts, writers>>

TimelineInputs ==
    { [center_epoch |-> c, window_hours |-> 1, project |-> p, limit |-> n] :
        c \in {<<>>, <<Hour + 1>>}, p \in {None, "alpha"}, n \in {0, 1, 50} }
    \cup { [center_epoch |-> <<1>>, window_hours |-> 0, project |-> None,
            limit |-> 50] }

\* a window that leaves its two ends out
InWindow_open(e, center, hours) ==
    /\ center - hours * Hour < e
    /\ e < center + hours * Hour

\* created_at_epoch BETWEEN start_epoch AND end_epoch
InWindow(e, center, hours) ==
    /\ center - hours * Hour <= e
    /\ e <= center + hours * Hour

\* the rows of one table get_timeline may return, t being the center
TimelineRows(rows, q, t) ==
    {SqlLimit(s, q.limit) :
        s \in OrderBy({r \in rows :
                          /\ InWindow(r.created_at_epoch, t, q.window_hours)
                          /\ Truthy(q.project) => r.project = q.project},
                      "newest")}

\* a timeline whose two lists share one cap
store_get_timeline_shared_cap(db, summaries, q, t) ==
    LET center == IF q.center_epoch = <<>> THEN t ELSE q.center_epoch[1]
    IN {[center_epoch |-> center, window_hours |-> q.window_hours,
         observations |-> rows_to_memories(o),
         summaries |-> SqlLimit(u, Max2(0, q.limit - Len(o)))] :
           o \in TimelineRows(db.m, q, center),
           u \in TimelineRows(summaries, q, center)}

\* the dicts get_timeline may return when the clock reads t
store_get_timeline(db, summaries, q, t) ==
    LET center == IF q.center_epoch = <<>> THEN t ELSE q.center_epoch[1]
    IN {[center_epoch |-> center, window_hours |-> q.window_hours,
         observations |-> rows_to_memories(o), summaries |-> u] :
           o \in TimelineRows(db.m, q, center),
           u \in TimelineRows(summaries, q, center)}

\* the clock is read only when no center is given
get_timeline(q, t) ==
    /\ now' = IF q.center_epoch = <<>> THEN t ELSE now
    /\ \E value \in store_get_timeline(DB, session_summaries, q, t) :
           /\ op' = "get_timeline"
           /\ args' = q
           /\ result' = value
    /\ evicted' = {}
    /\ UNCHANGED <<memories, memories_fts, max_memories, next_id, fts_table,
                   sessions, session_summaries, schema,
                   user_prompts, writers>>

\* a store opened with the default max_memories
InitQuery ==
    /\ memories = {}
    /\ memories_fts = EmptyBag
    /\ max_memories = DefaultMaxMemories
    /\ next_id = 0
    /\ now = 0
    /\ op = "open"
    /\ args = <<>>
    /\ result = <<>>
    /\ evicted = {}
    /\ fts_table = TRUE
    /\ sessions = {}
    /\ session_summaries = {}
    /\ schema = Migrated
    /\ user_prompts = {}
    /\ writers = <<>>

NextQuery ==
    \/ \E a \in QueryAddInputs : \E t \in now..MaxClock :
           fts_table /\ add(a, t)
    \/ \E a \in QueryAddInputs : add_raises(a)
    \/ lose_index
    \/ \E f \in ListInputs : list_all(f)
    \/ \E f \in IndexInputs : list_index(f)
    \/ \E q \in SearchInputs : search(q)

SpecQuery == InitQuery /\ [][NextQuery]_vars

TimelineAddInputs ==
    { [AddDefaults EXCEPT !.content = Py],
      [AddDefaults EXCEPT !.content = Js, !.project = "alpha"] }

NextTimeline ==
    \/ \E a \in TimelineAddInputs : \E t \in QueryEpochs :
           t >= now /\ add(a, t)
    \/ \E a \in SummaryInputs : \E t \in QueryEpochs :
           t >= now /\ add_summary(a, t)
    \/ \E q \in TimelineInputs : \E t \in QueryEpochs :
           t >= now /\ get_timeline(q, t)

SpecTimeline == InitQuery /\ [][NextTimeline]_vars

ResultSet == {result[i] : i \in DOMAIN result}

\* C11: list with min_importance = m returns exactly the stored memories
\* whose importance is >= m (boundary included) that also satisfy every
\* other supplied filter, ordered by importance descending and, among equal
\* importance, by creation epoch descending.
C11_ListMinImportance ==
    (op = "list_all" /\ args.min_importance # <<>> /\ args.limit = <<>>) =>
        LET expected ==
                {r \in memories :
                    /\ r.importance >= args.min_importance[1]
                    /\ args.type # None => r.type = args.type
                    /\ args.category # None => r.category = args.category
                    /\ args.project # None => r.project = args.project
                    /\ args.session_id # None =>
                          r.session_id = args.session_id
                    /\ args.since_epoch # <<>> =>
                          r.created_at_epoch >= args.since_epoch[1]
                    /\ args.concepts # <<>> =>
                          \E i \in DOMAIN args.concepts :
                              \E j \in DOMAIN r.concepts :
                                  r.concepts[j] = args.concepts[i]}
        IN /\ ResultSet = {row_to_memory(r) : r \in expected}
           /\ Len(result) = Cardinality(expected)
           /\ \A i, j \in DOMAIN result : i < j =>
                 \/ result[i].importance > result[j].importance
                 \/ /\ result[i].importance = result[j].importance
                    /\ result[i].created_at_epoch
                           >= result[j].created_at_epoch

\* list(min_importance = 0.5) over memories of importance 0.9 and 0.5
\* returned both, the 0.9 first
C11_Witness ==
    /\ op = "list_all"
    /\ args.min_importance = <<5>>
    /\ args.limit = <<>>
    /\ Len(result) = 2
    /\ result[1].importance = 9
    /\ result[2].importance = 5

\* C12: when a cap n is supplied to list or list_index, the result has at
\* most n records and is the first n records of the uncapped result in the
\* default order, for every integer n >= 0 the caller can pass.
C12_CapTruncates ==
    /\ (op = "list_all" /\ args.limit # <<>> /\ args.limit[1] >= 0) =>
          /\ Len(result) <= args.limit[1]
          /\ \E l \in store_list_all(DB, [args EXCEPT !.limit = <<>>]) :
                result = Prefix(l, args.limit[1])
    /\ (op = "list_index" /\ args.limit[1] >= 0) =>
          /\ Len(result) <= args.limit[1]
          /\ \E l \in store_list_index(DB, [args EXCEPT !.limit = <<>>]) :
                result = Prefix(l, args.limit[1])

\* C13: search for a term that occurs in no stored memory returns an empty
\* result, and search for a term that occurs in exactly one stored memory
\* returns that memory first, whether the primary engine or the fallback
\* scorer answers.  A term is a query of one word; the fields are the five
\* the index covers (title, subtitle, content, facts, concepts); a term
\* occurs in no memory when no field contains it, case ignored, and in
\* exactly one when it is a word of a field of that memory and no field of
\* another memory contains it.
C13_SearchFindsTerm ==
    (/\ op = "search"
     /\ args.limit >= 1
     /\ args.type = None
     /\ args.project = None
     /\ SplitOn(args.query, {" "}) = <<args.query>>) =>
        LET term == Lower(args.query)
            fields(m) ==
                {m.title, m.subtitle, m.content}
                \cup {m.facts[i] : i \in DOMAIN m.facts}
                \cup {m.concepts[i] : i \in DOMAIN m.concepts}
            contains(m) == \E text \in fields(m) : Contains(Lower(text), term)
            has_word(m) ==
                \E text \in fields(m) :
                    \E i \in DOMAIN SplitOn(Lower(text), {" "}) :
                        SplitOn(Lower(text), {" "})[i] = term
        IN /\ (\A m \in memories : ~contains(m)) => result = <<>>
           /\ \A m \in memories :
                 (has_word(m) /\ \A o \in memories \ {m} : ~contains(o)) =>
                     /\ result # <<>>
                     /\ result[1] = row_to_memory(m)

\* C14: whenever the primary engine fails for a query (malformed query
\* syntax or shadow index unavailable), search returns the result of the
\* fallback scorer for the same query, limit, type and project, no error
\* reaches the caller, and the stored state is unchanged.
C14_FailureFallsBack ==
    [][(IsCallStep("search") /\ (~fts_table \/ Fts5Rejects(args'.query))) =>
        /\ result' \in store_search_fallback(DB, args')
        /\ UNCHANGED <<memories, memories_fts, fts_table, sessions,
                       session_summaries, max_memories>>
    ]_vars

\* a query FTS5 rejects was answered by the fallback with a memory
C14_Witness ==
    /\ op = "search"
    /\ fts_table
    /\ Fts5Rejects(args.query)
    /\ result # <<>>

\* C15: the fallback scorer gives each candidate the score (number of
\* distinct whitespace-separated query terms that occur, case-insensitively,
\* in its searchable text) multiplied by its importance, and returns the
\* candidates sorted by that score descending, truncated to limit.
C15_FallbackScore ==
    (op = "search" /\ (~fts_table \/ Fts5Rejects(args.query))) =>
        LET terms == SplitOn(Lower(args.query), {" "})
            found(m) == {t \in {terms[i] : i \in DOMAIN terms} :
                            Contains(Searchable(m), t)}
            score(m) == Cardinality(found(m)) * m.importance
            candidates ==
                {row_to_memory(m) :
                    m \in {x \in memories :
                              /\ found(x) # {}
                              /\ args.type # None => x.type = args.type
                              /\ args.project # None =>
                                    x.project = args.project}}
        IN /\ ResultSet \subseteq candidates
           /\ Len(result) = Min2(args.limit, Cardinality(candidates))
           /\ Cardinality(ResultSet) = Len(result)
           /\ \A i, j \in DOMAIN result :
                 i < j => score(result[i]) >= score(result[j])
           /\ \A c \in candidates \ ResultSet :
                 \A i \in DOMAIN result : score(result[i]) >= score(c)

\* C16: the fallback scorer never returns a candidate whose score is zero,
\* for every stored importance in [0, 1] and every query.
C16_NoZeroScore ==
    (op = "search" /\ (~fts_table \/ Fts5Rejects(args.query))) =>
        \A i \in DOMAIN result : Score(result[i], args.query) > 0

\* C17: get_timeline with center T and window_hours h returns a memory if
\* and only if its creation epoch e satisfies
\* T - h*3600000 <= e <= T + h*3600000 (both ends included) and it passes
\* the project filter, up to the cap: a memory exactly on either boundary is
\* included and one a single millisecond outside is excluded.
C17_TimelineWindow ==
    op = "get_timeline" =>
        LET T == result.center_epoch
            h == args.window_hours
            inside == {row_to_memory(m) :
                          m \in {x \in memories :
                                    /\ T - h * 3600000 <= x.created_at_epoch
                                    /\ x.created_at_epoch <= T + h * 3600000
                                    /\ args.project # None =>
                                          x.project = args.project}}
            returned == {result.observations[i] :
                            i \in DOMAIN result.observations}
        IN /\ returned \subseteq inside
           /\ Cardinality(returned) = Min2(args.limit, Cardinality(inside))
           /\ args.center_epoch # <<>> => T = args.center_epoch[1]

\* a memory created exactly one hour after the center was returned and one
\* created a millisecond later was left out
C17_Witness ==
    /\ op = "get_timeline"
    /\ args.window_hours = 1
    /\ args.center_epoch # <<>>
    /\ \E i \in DOMAIN result.observations :
          result.observations[i].created_at_epoch
              = args.center_epoch[1] + 3600000
    /\ \E m \in memories :
          /\ m.created_at_epoch = args.center_epoch[1] + 3600001
          /\ \A i \in DOMAIN result.observations :
                result.observations[i].id # m.id

\* C18: for every external session id, the first create_session creates one
\* session with prompt_count = 1 and status active, and each later
\* create_session for the same id creates no new row, raises prompt_count by
\* exactly 1 and replaces the stored latest prompt with the one supplied; no
\* other call changes a prompt_count or the number of sessions, so after n
\* calls there is exactly one session for that id and its prompt_count is n.
C18_CreateSessionUpsert ==
    [][/\ \A sid \in {r.session_id : r \in sessions'} :
             Cardinality(SessionOf(sessions', sid)) = 1
       /\ IF op' = "create_session" /\ sessions' # sessions
          THEN LET sid == args'.session_id
                   new == CHOOSE r \in SessionOf(sessions', sid) : TRUE
               IN /\ sessions' \ {new} = sessions \ SessionOf(sessions, sid)
                  /\ new.user_prompt = args'.user_prompt
                  /\ result'.prompt_count = new.prompt_count
                  /\ IF SessionOf(sessions, sid) = {}
                     THEN new.prompt_count = 1 /\ new.status = "active"
                     ELSE \A old \in SessionOf(sessions, sid) :
                              new.prompt_count = old.prompt_count + 1
          ELSE /\ {r.session_id : r \in sessions'}
                      = {r.session_id : r \in sessions}
               /\ \A r \in sessions :
                      \A q \in SessionOf(sessions', r.session_id) :
                          q.prompt_count = r.prompt_count
    ]_vars

\* the third create_session for an id left one session with prompt_count 3
\* and the prompt of that call
C18_Witness ==
    /\ op = "create_session"
    /\ \E r \in sessions :
          /\ r.session_id = args.session_id
          /\ r.prompt_count = 3
          /\ r.user_prompt = args.user_prompt
          /\ Cardinality(SessionOf(sessions, r.session_id)) = 1
    /\ Cardinality(sessions) = 2

\* C19: complete_session(id, status) on an existing session sets its status
\* to the given value and sets its completion timestamp, and returns true;
\* on an id with no session it returns false, creates no session and
\* changes nothing.
C19_CompleteSession ==
    [][op' = "complete_session" =>
        LET sid == args'.session_id
        IN IF SessionOf(sessions, sid) # {}
           THEN /\ result' = TRUE
                /\ \A old \in SessionOf(sessions, sid) :
                      sessions' = (sessions \ {old})
                          \cup {[old EXCEPT !.status = args'.status,
                                            !.completed_at_epoch = <<now'>>]}
           ELSE /\ result' = FALSE
                /\ UNCHANGED <<sessions, session_summaries, memories,
                               memories_fts>>
    ]_vars

\* a session was completed with the status the call gave, and a later call
\* for an id without a session returned false
C19_Witness ==
    /\ op = "complete_session"
    /\ result = FALSE
    /\ SessionOf(sessions, args.session_id) = {}
    /\ \E r \in sessions :
          r.status = "bogus" /\ r.completed_at_epoch # <<>>

\* C20: an operation addressed to an id that is not stored signals no error
\* and changes no stored state: get returns absent, update returns absent,
\* delete returns false.
C20_NotFound ==
    [][(/\ next_id' = next_id
        /\ op' \in {"get", "update", "delete"}
        /\ args'.id \notin StoredIds) =>
        /\ op' = "get" => result' = <<>>
        /\ op' = "update" => result' = <<>>
        /\ op' = "delete" => result' = FALSE
        /\ UNCHANGED <<memories, memories_fts, max_memories, fts_table,
                       sessions, session_summaries>>
    ]_vars

\* an update with fields, addressed to an id that was stored once and is
\* gone, returned absent beside a stored memory
C20_Witness ==
    /\ op = "update"
    /\ DOMAIN args.fields # {}
    /\ args.id <= next_id
    /\ args.id \notin StoredIds
    /\ result = <<>>
    /\ memories # {}

(***************************************************************************)
(* The tools of tools.py over the store: each execute reads its input      *)
(* dict, rejects a missing or empty required field before it touches the   *)
(* store, and wraps what the store returns in a ToolResult.                *)
(*                                                                         *)
(* An input dict is a function from its keys.  Memory ids are strings in   *)
(* the code; the model numbers the strings uuid4 hands out 1, 2, ... and   *)
(* writes the empty string as EmptyId.                                     *)
(***************************************************************************)
EmptyId == 0

\* input.get(key, default)
DictGet(input, key, default) ==
    IF \E k \in DOMAIN input : k = key THEN input[key] ELSE default

ToolSuccess(output) == [success |-> TRUE, output |-> output]

\* ToolResult(success=False, error={"message": ...}); an f-string message
\* is the tuple of its parts
ToolFailure(message) == [success |-> FALSE, error |-> [message |-> message]]

\* Memory.to_dict: the fields of the record, the timestamp under created_at
Memory_to_dict(m) ==
    [f \in (DOMAIN m \ {"created_at_epoch"}) \cup {"created_at"} |->
        IF f = "created_at" THEN m.created_at_epoch ELSE m[f]]

\* the keyword arguments AddMemoryTool.execute hands to store.add; its
\* defaults are those of the signature of add
AddToolArgs(input) ==
    [f \in DOMAIN AddDefaults |->
        IF f \in {"metadata", "discovery_tokens"} THEN AddDefaults[f]
        ELSE DictGet(input, f, AddDefaults[f])]

\* the keyword arguments UpdateMemoryTool.execute hands on that are not None
UpdateToolArgs(input) ==
    [c \in {k \in DOMAIN input :
                k \in {"content", "type", "title", "subtitle", "facts",
                       "concepts", "category", "importance", "tags"}} |->
        input[c]]

\* the input dicts of the tools, by the schema they follow
ToolInputs ==
    [add |->
        { <<>>,
          ("content" :> <<>>) @@ ("title" :> Tip),
          ("content" :> Py),
          ("content" :> Js) @@ ("type" :> "feature") @@ ("importance" :> 9)
              @@ ("concepts" :> <<Got>>) @@ ("project" :> "alpha") },
     search |->
        { <<>>,
          ("query" :> <<>>) @@ ("limit" :> 1),
          ("query" :> Py),
          ("query" :> Js) @@ ("limit" :> 1) @@ ("type" :> "feature") },
     id |-> {<<>>} \cup {("id" :> id) : id \in {EmptyId} \cup Ids},
     update |->
        {<<>>, ("content" :> Js)}
        \cup {("id" :> id) : id \in {EmptyId} \cup Ids}
        \cup {("id" :> id) @@ ("content" :> <<>>) : id \in {EmptyId} \cup Ids}
        \cup {("id" :> id) @@ ("content" :> Js) @@ ("title" :> Got)
                  @@ ("importance" :> 20) : id \in {EmptyId} \cup Ids}]

\* an add_memory that hands whatever content it is given to the store
add_memory_unvalidated(input, t) ==
    /\ next_id < MaxIds
    /\ next_id' = next_id + 1
    /\ now' = t
    /\ \E out \in store_add(DB, max_memories, AddToolArgs(input),
                            next_id + 1, t) :
           Commit([out EXCEPT !.value = ToolSuccess([id |-> out.value.id])],
                  "add_memory", input)
    /\ UNCHANGED max_memories

\* AddMemoryTool.execute; uuid4 and datetime.now are read in store.add
add_memory(input, t) ==
    IF DictGet(input, "content", <<>>) = <<>>
    THEN /\ Commit([db |-> DB,
                    value |-> ToolFailure(<<"Content is required">>)],
                   "add_memory", input)
         /\ UNCHANGED <<max_memories, next_id, now>>
    ELSE /\ next_id < MaxIds
         /\ next_id' = next_id + 1
         /\ now' = t
         /\ \E out \in store_add(DB, max_memories, AddToolArgs(input),
                                 next_id + 1, t) :
                Commit([out EXCEPT !.value =
                            ToolSuccess(
                                [id |-> out.value.id,
                                 message |-> "Memory stored successfully",
                                 type |-> out.value.type,
                                 title |-> out.value.title])],
                       "add_memory", input)
         /\ UNCHANGED max_memories

\* SearchMemoriesTool.execute
search_memories(input) ==
    LET query == DictGet(input, "query", <<>>)
        found == store_search(DB, fts_table,
                     [query |-> query,
                      limit |-> DictGet(input, "limit", 10),
                      type |-> DictGet(input, "type", None),
                      project |-> DictGet(input, "project", None)])
    IN /\ IF query = <<>>
          THEN Commit([db |-> DB,
                       value |-> ToolFailure(<<"Query is required">>)],
                      "search_memories", input)
          ELSE \E ms \in found :
                   Commit([db |-> DB,
                           value |-> ToolSuccess(
                               [query |-> query, count |-> Len(ms),
                                memories |-> [i \in DOMAIN ms |->
                                                 Memory_to_dict(ms[i])]])],
                          "search_memories", input)
       /\ UNCHANGED <<max_memories, next_id, now>>

\* GetMemoryTool.execute
get_memory(input) ==
    LET memory_id == DictGet(input, "id", EmptyId)
        out == store_get(DB, memory_id)
    IN /\ AccessedOf(memory_id) < MaxAccess
       /\ IF memory_id = EmptyId
          THEN Commit([db |-> DB, value |-> ToolFailure(<<"ID is required">>)],
                      "get_memory", input)
          ELSE Commit([db |-> out.db,
                       value |-> IF out.value = <<>>
                                 THEN ToolFailure(<<"Memory not found: ",
                                                    memory_id>>)
                                 ELSE ToolSuccess(
                                          Memory_to_dict(out.value[1]))],
                      "get_memory", input)
       /\ UNCHANGED <<max_memories, next_id, now>>

\* UpdateMemoryTool.execute
update_memory(input) ==
    LET memory_id == DictGet(input, "id", EmptyId)
        out == store_update(DB, memory_id, UpdateToolArgs(input))
    IN /\ AccessedOf(memory_id)
              + (IF UpdateColumns(UpdateToolArgs(input)) = {} THEN 1 ELSE 2)
            <= MaxAccess
       /\ IF memory_id = EmptyId
          THEN Commit([db |-> DB, value |-> ToolFailure(<<"ID is required">>)],
                      "update_memory", input)
          ELSE Commit([db |-> out.db,
                       value |-> IF out.value = <<>>
                                 THEN ToolFailure(<<"Memory not found: ",
                                                    memory_id>>)
                                 ELSE ToolSuccess(
                                          [message |->
                                               "Memory updated successfully",
                                           memory |->
                                               Memory_to_dict(out.value[1])])],
                      "update_memory", input)
       /\ UNCHANGED <<max_memories, next_id, now>>

\* a delete_memory that reports success whatever the store returned
delete_memory_always_succeeds(input) ==
    LET memory_id == DictGet(input, "id", EmptyId)
    IN /\ Commit([db |-> IF memory_id = EmptyId THEN DB
                         ELSE store_delete(DB, memory_id).db,
                  value |-> ToolSuccess([message |->
                                <<"Memory ", memory_id,
                                  " deleted successfully">>])],
                 "delete_memory", input)
       /\ UNCHANGED <<max_memories, next_id, now>>

\* DeleteMemoryTool.execute
delete_memory(input) ==
    LET memory_id == DictGet(input, "id", EmptyId)
        out == store_delete(DB, memory_id)
    IN /\ IF memory_id = EmptyId
          THEN Commit([db |-> DB, value |-> ToolFailure(<<"ID is required">>)],
                      "delete_memory", input)
          ELSE Commit([db |-> out.db,
                       value |-> IF ~out.value
                                 THEN ToolFailure(<<"Memory not found: ",
                                                    memory_id>>)
                                 ELSE ToolSuccess(
                                          [message |->
                                               <<"Memory ", memory_id,
                                                 " deleted successfully">>])],
                      "delete_memory", input)
       /\ UNCHANGED <<max_memories, next_id, now>>

NextTools ==
    \/ \E input \in ToolInputs.add : \E t \in now..MaxClock :
           add_memory(input, t)
    \/ \E input \in ToolInputs.search : search_memories(input)
    \/ \E input \in ToolInputs.id : get_memory(input)
    \/ \E input \in ToolInputs.update : update_memory(input)
    \/ \E input \in ToolInputs.id : delete_memory(input)

SpecTools == Init /\ [][NextTools]_vars

(***************************************************************************)
(* Properties of the tools.                                                *)
(***************************************************************************)
\* whether the field the tool requires is missing from the input or empty
RequiredMissing(name, input) ==
    CASE name = "add_memory" -> DictGet(input, "content", <<>>) = <<>>
      [] name = "search_memories" -> DictGet(input, "query", <<>>) = <<>>
      [] OTHER -> DictGet(input, "id", EmptyId) = EmptyId

\* C21: a tool call whose required field (content for add_memory, query for
\* search_memories, id for get_memory, update_memory and delete_memory) is
\* missing or empty returns a failure result and performs no store
\* operation: the memories and their accessed_count, the shadow table and
\* the ids handed out are as they were before the call.
C21_MissingFieldRejected ==
    [][(/\ op' \in {"add_memory", "search_memories", "get_memory",
                    "update_memory", "delete_memory"}
        /\ RequiredMissing(op', args'))
          => /\ result'.success = FALSE
             /\ UNCHANGED <<memories, memories_fts, next_id, now>>]_vars

\* an update_memory without an id, carrying new content, was answered with
\* a failure while a memory is stored
C21_Witness ==
    /\ op = "update_memory"
    /\ args = ("content" :> Js)
    /\ result.success = FALSE
    /\ memories # {}

\* C22: get_memory, update_memory and delete_memory called with a
\* (non-empty) id that is not stored return the failure result 'Memory not
\* found' and leave the store unchanged; delete_memory called with a stored
\* id returns success and the memory is gone.
C22_NotFoundTools ==
    [][(op' \in {"get_memory", "update_memory", "delete_memory"}
        /\ ~RequiredMissing(op', args'))
          => /\ Lookup(memories, args'["id"]) = {}
                  => /\ result' = ToolFailure(<<"Memory not found: ",
                                                args'["id"]>>)
                     /\ UNCHANGED <<memories, memories_fts>>
             /\ (op' = "delete_memory" /\ Lookup(memories, args'["id"]) # {})
                  => /\ result'.success
                     /\ Lookup(memories', args'["id"]) = {}
                     /\ memories' = memories \ Lookup(memories, args'["id"])]_vars

\* a delete_memory of an id that was deleted before was answered 'Memory
\* not found' while another memory is stored
C22_Witness ==
    /\ op = "delete_memory"
    /\ args = ("id" :> 1)
    /\ result = ToolFailure(<<"Memory not found: ", 1>>)
    /\ next_id = 2
    /\ memories # {}

(***************************************************************************)
(* Opening a file: MemoryStore.__init__ runs _init_db and _run_migrations. *)
(*                                                                         *)
(* The statements are grouped into the units that become durable one at a  *)
(* time.  A CREATE or ALTER statement outside a transaction commits by     *)
(* itself.  In _migrate_v1 the backfill UPDATE opens a transaction that    *)
(* the INSERT of version 1 and commit() close.  In _migrate_v2_fts5 the    *)
(* first INSERT OR IGNORE opens a transaction that holds every later       *)
(* statement up to commit().  A process that dies leaves the file as the   *)
(* last completed unit left it.                                            *)
(***************************************************************************)
File == [m |-> memories, f |-> memories_fts, fts |-> fts_table, s |-> schema]

\* the DEFAULT of a column added by ALTER TABLE; where it has none the
\* column holds NULL, which the model writes None, and -1 for an epoch
ColumnDefault(c) ==
    CASE c = "type" -> "change"
      [] c \in {"session_id", "project"} -> None
      [] c = "created_at_epoch" -> -1
      [] c = "discovery_tokens" -> 0
      [] OTHER -> <<>>

\* one ALTER TABLE per column that PRAGMA table_info does not list, then
\* the transaction that backfills and records version 1
migrate_v1_units(F) ==
    LET missing(c) == c \notin F.s.columns
        cols == SelectSeq(V1Columns, missing)
    IN [i \in 1..Len(cols) |-> [kind |-> "column", name |-> cols[i], on |-> ""]]
       \o <<[kind |-> "v1", name |-> "", on |-> ""]>>

\* CREATE VIRTUAL TABLE memories_fts, then the transaction with the rest
migrate_v2_fts5_units ==
    <<[kind |-> "fts", name |-> "memories_fts", on |-> ""],
      [kind |-> "v2", name |-> "", on |-> ""]>>

\* a CREATE VIRTUAL TABLE without IF NOT EXISTS
create_memories_fts_strict(F) ==
    [file |-> [F EXCEPT !.fts = TRUE], raised |-> F.fts]

\* CREATE VIRTUAL TABLE IF NOT EXISTS memories_fts
create_memories_fts(F) ==
    [file |-> [F EXCEPT !.fts = TRUE], raised |-> FALSE]

\* the file a unit leaves, and whether it raised OperationalError.  The
\* backfill reads the seconds of created_at; INSERT OR IGNORE INTO
\* memories_fts skips a row whose rowid the index already holds.
ExecUnit(F, u) ==
    CASE u.kind = "table" ->
           [file |-> IF u.name \in F.s.tables THEN F
                     ELSE [F EXCEPT !.s.tables = @ \cup {u.name},
                                    !.s.columns =
                                        IF u.name = "memories"
                                        THEN SeqRange(V1Columns) ELSE @],
            raised |-> FALSE]
      [] u.kind = "index" ->
           IF u.on # "" /\ u.on \notin F.s.columns
           THEN [file |-> F, raised |-> TRUE]
           ELSE [file |-> [F EXCEPT !.s.indexes = @ \cup {u.name}],
                 raised |-> FALSE]
      [] u.kind = "column" ->
           [file |-> [F EXCEPT
                        !.s.columns = @ \cup {u.name},
                        !.m = {AddField(r, u.name, ColumnDefault(u.name)) :
                                  r \in @}],
            raised |-> FALSE]
      [] u.kind = "v1" ->
           [file |-> [F EXCEPT
                        !.m = {IF r.created_at_epoch
                                    = ColumnDefault("created_at_epoch")
                               THEN [r EXCEPT !.created_at_epoch =
                                        (r.created_at \div 1000) * 1000]
                               ELSE r : r \in @},
                        !.s.version = @ \cup {1}],
            raised |-> FALSE]
      [] u.kind = "fts" -> create_memories_fts(F)
      [] u.kind = "v2" ->
           [file |-> [F EXCEPT
                        !.f = @ (+) SetToBag(
                                  {FtsDoc(r) : r \in {x \in F.m :
                                       \A d \in BagToSet(F.f) :
                                           d.rowid # x.rowid}}),
                        !.s.objects = @ \cup V2Objects,
                        !.s.version = @ \cup {2}],
            raised |-> FALSE]

\* the first k of the units, up to the first that raises
RECURSIVE RunUnits(_, _, _)
RunUnits(F, units, k) ==
    IF units = <<>> \/ k = 0
    THEN [file |-> F, raised |-> FALSE, left |-> Len(units)]
    ELSE LET r == ExecUnit(F, Head(units))
         IN IF r.raised
            THEN [file |-> F, raised |-> TRUE, left |-> Len(units)]
            ELSE RunUnits(r.file, Tail(units), k - 1)

\* SELECT MAX(version) FROM schema_version, 0 when there is none
current_version(F) ==
    IF F.s.version = {} THEN 0
    ELSE CHOOSE v \in F.s.version : \A w \in F.s.version : w <= v

\* the constructor on file F, the process dying after k units if it gets
\* that far
MemoryStore_init(F, k) ==
    LET a == RunUnits(F, init_db_units, k)
        v == current_version(a.file)
        units == (IF v < 1 THEN migrate_v1_units(a.file) ELSE <<>>)
                 \o (IF v < 2 THEN migrate_v2_fts5_units ELSE <<>>)
        b == RunUnits(a.file, units, k - Len(init_db_units))
    IN IF a.raised \/ a.left > 0
       THEN [file |-> a.file, migrations |-> <<>>,
             outcome |-> IF a.raised THEN "raised" ELSE "interrupted"]
       ELSE [file |-> b.file,
             migrations |->
                 (IF v < 1 /\ 1 \in b.file.s.version THEN <<1>> ELSE <<>>)
                 \o (IF v < 2 /\ 2 \in b.file.s.version THEN <<2>> ELSE <<>>),
             outcome |-> IF b.raised THEN "raised"
                         ELSE IF b.left > 0 THEN "interrupted"
                         ELSE "opened"]

\* no open runs more units than this
MaxUnits == Len(init_db_units) + Len(V1Columns) + 1 + 2

\* MemoryStore(db_path) in a process that dies after k units, or that runs
\* to the end (k = MaxUnits) and returns or raises; args keeps what the
\* call found: the marker, whether memories_fts was there, the rows, and
\* the call before it
open_store(k) ==
    LET out == MemoryStore_init(File, k)
    IN /\ k = MaxUnits \/ out.outcome = "interrupted"
       /\ op' = IF out.outcome = "interrupted" THEN "open_interrupted"
                ELSE "open"
       /\ args' = [version |-> current_version(File), fts |-> fts_table,
                   rows |-> memories, previous |-> op, at |-> k]
       /\ result' = [outcome |-> out.outcome, migrations |-> out.migrations]
       /\ memories' = out.file.m
       /\ memories_fts' = out.file.f
       /\ fts_table' = out.file.fts
       /\ schema' = out.file.s
       /\ evicted' = {}
       /\ UNCHANGED <<max_memories, next_id, now, sessions, session_summaries,
                      user_prompts, writers>>

(***************************************************************************)
(* The files an open may find: none, or the file of an earlier release.    *)
(* _migrate_v1 is written for a memories table that lacks any of           *)
(* V1Columns, _migrate_v2_fts5 for a file whose marker is 1; such files    *)
(* hold rows written before this release.  A row of a memories table that  *)
(* has the columns cols of V1Columns is OldRow(id, cols, content, t).      *)
(***************************************************************************)
OldFiles ==
    LET NoSchema == [tables |-> {}, columns |-> {}, indexes |-> {},
                     version |-> {}, objects |-> {}]
        OldRow(id, cols, content, t) ==
            [c \in {"rowid", "id", "content", "category", "importance",
                    "tags", "metadata", "created_at", "accessed_count"}
                       \cup cols |->
                CASE c \in {"rowid", "id"} -> id
                  [] c = "content" -> content
                  [] c = "category" -> "general"
                  [] c = "importance" -> 5
                  [] c = "created_at" -> t
                  [] c = "accessed_count" -> 0
                  [] OTHER -> ColumnDefault(c)]
    IN { [m |-> {}, f |-> EmptyBag, fts |-> FALSE, s |-> NoSchema],
         [m |-> {OldRow(1, {}, Py, 1)}, f |-> EmptyBag, fts |-> FALSE,
          s |-> [NoSchema EXCEPT !.tables = {"memories"}]],
         [m |-> {OldRow(1, {"type", "session_id", "project",
                            "created_at_epoch"}, Js, 1)},
          f |-> EmptyBag, fts |-> FALSE,
          s |-> [NoSchema EXCEPT !.tables = {"memories"},
                                 !.columns = {"type", "session_id", "project",
                                              "created_at_epoch"}]],
         [m |-> {OldRow(1, SeqRange(V1Columns), Py, 0),
                 [OldRow(2, SeqRange(V1Columns), Js, 1) EXCEPT
                      !.created_at_epoch = 1, !.concepts = <<Got>>]},
          f |-> EmptyBag, fts |-> FALSE,
          s |-> [Migrated EXCEPT !.version = {1}, !.objects = {}]] }

InitOpen ==
    /\ \E F \in OldFiles :
          /\ memories = F.m
          /\ memories_fts = F.f
          /\ fts_table = F.fts
          /\ schema = F.s
          /\ next_id = Cardinality(F.m)
    /\ max_memories = DefaultMaxMemories
    /\ now = 1
    /\ user_prompts = {}
    /\ writers = <<>>
    /\ op = "file"
    /\ args = <<>>
    /\ result = <<>>
    /\ evicted = {}
    /\ sessions = {}
    /\ session_summaries = {}

\* add and delete need a store object: some open has returned
NextOpen ==
    \/ \E k \in 0..MaxUnits : open_store(k)
    \/ \E a \in AddInputs : \E t \in now..MaxClock :
           2 \in schema.version /\ add(a, t)
    \/ \E id \in Ids : 2 \in schema.version /\ delete(id)

SpecOpen == InitOpen /\ [][NextOpen]_vars

(***************************************************************************)
(* Properties of opening a file.                                           *)
(***************************************************************************)
\* C23: opening a store whose version marker is v (0 when absent) applies
\* exactly the migrations numbered above v, in ascending order, and ends
\* with the marker at 2; opening a store already at version 2 applies no
\* migration and changes nothing that is stored.
C23_OpenMigrates ==
    [][op' = "open" =>
          LET v == current_version(File)
          IN /\ result'.outcome = "opened"
             /\ result'.migrations = [i \in 1..(2 - v) |-> v + i]
             /\ current_version(File') = 2
             /\ v = 2 => UNCHANGED <<memories, memories_fts, fts_table, schema,
                                     sessions, session_summaries>>]_vars

\* C30: when an open is interrupted while the migrations run and the file
\* is opened again, the second open completes: the marker is 2, the three
\* shadow tables and their triggers exist, every memory row stored before
\* the crash is still stored, and each has exactly one shadow entry.
C30_ReopenAfterCrash ==
    [][(/\ op = "open_interrupted"
        /\ args.at >= Len(init_db_units)
        /\ op' = "open")
          => /\ result'.outcome = "opened"
             /\ current_version(File') = 2
             /\ fts_table'
             /\ V2Objects \subseteq schema'.objects
             /\ \A old \in args.rows :
                   \E r \in memories' :
                      /\ \A c \in DOMAIN old \ {"created_at_epoch"} :
                            r[c] = old[c]
                      /\ {d \in BagToSet(memories_fts') :
                              d.rowid = r.rowid} = {FtsDoc(r)}
                      /\ CopiesIn(FtsDoc(r), memories_fts') = 1]_vars

\* an open found memories_fts in a file that was still at version 1, left
\* by an open that died between CREATE VIRTUAL TABLE and the commit of
\* migration 2, and completed with both rows indexed
C30_Witness ==
    /\ op = "open"
    /\ args.version = 1
    /\ args.fts
    /\ args.previous = "open_interrupted"
    /\ result = [outcome |-> "opened", migrations |-> <<2>>]
    /\ Cardinality(memories) = 2
    /\ BagCardinality(memories_fts) = 2

(***************************************************************************)
(* The store with its reads and writes together, small or of the default   *)
(* size.                                                                   *)
(***************************************************************************)
SpecStore ==
    /\ Init \/ InitQuery
    /\ [][\/ Next
          \/ list_all(ListDefaults)
          \/ \E q \in {x \in SearchInputs : x.query = Py /\ x.limit = 10} :
                 search(q)]_vars

\* C24: while a memory stays stored its accessed_count never decreases; a
\* get of its id raises the stored count by exactly 1; add, list, search,
\* a get or delete of another id and the eviction of other ids leave it
\* unchanged.
C24_AccessedCountMonotone ==
    [][\A id \in Ids :
          (Lookup(memories, id) # {} /\ Lookup(memories', id) # {})
            => /\ AccessedOf(id)' >= AccessedOf(id)
               /\ (op' = "get" /\ args'.id = id)
                    => AccessedOf(id)' = AccessedOf(id) + 1
               /\ (op' = "get" /\ args'.id # id)
                    => AccessedOf(id)' = AccessedOf(id)
               /\ op' \in {"add", "delete", "list_all", "search"}
                    => AccessedOf(id)' = AccessedOf(id)]_vars

\* a second get of a memory brought its count to 2 while another memory,
\* never read, is stored with count 0
C24_Witness ==
    /\ op = "get"
    /\ result # <<>>
    /\ AccessedOf(args.id) = 2
    /\ \E r \in memories : r.id # args.id /\ r.accessed_count = 0

\* C25: after any sequence of create_session and complete_session calls,
\* whatever status they are given, every stored session has a status in
\* {active, completed, failed}.
C25_SessionStatusClosed ==
    \A s \in sessions : s.status \in {"active", "completed", "failed"}

\* C26: after any sequence of add_memory and update_memory tool calls every
\* stored memory has non-empty content.
C26_ContentNonEmpty ==
    \A r \in memories : r.content # <<>>

(***************************************************************************)
(* search_by_file and search_by_concept.                                   *)
(***************************************************************************)
\* WHERE files_read_json LIKE ? OR files_modified_json LIKE ?
\* ORDER BY created_at_epoch DESC LIMIT ?
search_by_file(file_path, limit) ==
    LET rows == {r \in memories :
                    \/ LikeQuoted(JsonDumps(r.files_read), file_path)
                    \/ LikeQuoted(JsonDumps(r.files_modified), file_path)}
    IN \E s \in OrderBy(rows, "newest") :
           Answer(rows_to_memories(SqlLimit(s, limit)), "search_by_file",
                  [file_path |-> file_path, limit |-> limit])

\* WHERE concepts_json LIKE ?
\* ORDER BY importance DESC, created_at_epoch DESC LIMIT ?
search_by_concept(concept, limit) ==
    LET rows == {r \in memories : LikeQuoted(JsonDumps(r.concepts), concept)}
    IN \E s \in OrderBy(rows, "importance") :
           Answer(rows_to_memories(SqlLimit(s, limit)), "search_by_concept",
                  [concept |-> concept, limit |-> limit])

\* a store of the default size with memories that name files and concepts
SpecFind ==
    /\ InitQuery
    /\ [][\/ \E a \in
                 { [AddDefaults EXCEPT !.content = Py, !.importance = 9,
                        !.files_read = <<<<"a", ".", "p">>>>,
                        !.concepts = <<Got>>],
                   [AddDefaults EXCEPT !.content = Js, !.importance = 1,
                        !.files_modified = <<<<"a", ".", "p">>, Py>>,
                        !.concepts = <<Got, Tip>>],
                   [AddDefaults EXCEPT !.content = Tip,
                        !.files_read = <<<<"a", "_", "p">>>>,
                        !.concepts = <<<<"g", "_", "t">>>>] } :
                 \E t \in now..MaxClock : add(a, t)
          \/ \E file_path \in {<<"a", ".", "p">>, <<"a", "_", "p">>, Py, Js} :
                 \E limit \in {0, 1, 10} : search_by_file(file_path, limit)
          \/ \E concept \in {Got, Tip, Js, <<"g", "_", "t">>,
                             <<"G", "O", "T">>} :
                 \E limit \in {0, 1, 10} : search_by_concept(concept, limit)
       ]_vars

\* C27: search_by_file(path) returns the memories whose files_read or
\* files_modified list contains the path, ordered by importance descending
\* and then by creation epoch descending, truncated to limit.
C27_SearchByFile ==
    op = "search_by_file" =>
        LET has(l) == \E i \in DOMAIN l : l[i] = args.file_path
            want == {r \in memories :
                        has(r.files_read) \/ has(r.files_modified)}
        IN \E s \in OrderBy(want, "importance") :
               result = rows_to_memories(SqlLimit(s, args.limit))

\* C28: search_by_concept(tag) returns the memories whose concepts list
\* contains the tag, ordered by importance descending and then by creation
\* epoch descending, truncated to limit.
C28_SearchByConcept ==
    op = "search_by_concept" =>
        LET want == {r \in memories :
                        \E i \in DOMAIN r.concepts :
                            r.concepts[i] = args.concept}
        IN \E s \in OrderBy(want, "importance") :
               result = rows_to_memories(SqlLimit(s, args.limit))

(***************************************************************************)
(* The fields of the fallback scorer.                                      *)
(***************************************************************************)
\* C29: the fallback scorer matches query terms against title, subtitle,
\* content, facts and concepts: when the fallback answers a query of one
\* word without filters and with a limit no result is cut by, a memory is
\* returned exactly when one of those five fields contains the term, case
\* ignored.  So a memory whose only occurrence of the term is in its
\* concepts is found, and a term only in another field (tags) matches
\* nothing.
C29_FallbackFields ==
    (/\ op = "search"
     /\ ~fts_table
     /\ args.limit >= MaxIds
     /\ args.type = None
     /\ args.project = None
     /\ SplitOn(args.query, {" "}) = <<args.query>>) =>
        LET covered(m) ==
                {m.title, m.subtitle, m.content}
                \cup {m.facts[i] : i \in DOMAIN m.facts}
                \cup {m.concepts[i] : i \in DOMAIN m.concepts}
        IN \A m \in memories :
               (\E i \in DOMAIN result : result[i] = row_to_memory(m))
               <=> \E text \in covered(m) :
                       Contains(Lower(text), Lower(args.query))

(***************************************************************************)
(* What update leaves alone.                                               *)
(***************************************************************************)
\* C37: update(id, fields) on a stored memory changes only the fields the
\* call applies and accessed_count of that memory: its other fields and
\* every other memory are unchanged, and its stored accessed_count rises by
\* 1 when no field is applied and by 2 when at least one is.
C37_UpdateFrame ==
    [][(IsCallStep("update") /\ args'.id \in StoredIds) =>
        LET applied == UpdateColumns(args'.fields)
            old == RowOf(memories, args'.id)
        IN /\ {r \in memories : r.id # args'.id}
                = {r \in memories' : r.id # args'.id}
           /\ Cardinality(Lookup(memories', args'.id)) = 1
           /\ LET new == RowOf(memories', args'.id)
              IN /\ \A c \in DOMAIN old \ (applied \cup {"accessed_count"}) :
                        new[c] = old[c]
                 /\ new.accessed_count =
                        old.accessed_count
                        + (IF applied = {} THEN 1 ELSE 2)
    ]_vars

\* an update that applied its content, and one that applied nothing, beside
\* a second memory that was never read
C37_Witness ==
    /\ op = "update"
    /\ \E r \in memories : r.id # args.id /\ r.accessed_count = 0
    /\ \/ /\ "content" \in DOMAIN args.fields
          /\ AccessedOf(args.id) = 2
       \/ /\ UpdateColumns(args.fields) = {}
          /\ DOMAIN args.fields # {}
          /\ AccessedOf(args.id) = 1

(***************************************************************************)
(* Eviction: when it runs and what its failure does to add.                *)
(***************************************************************************)
\* add whose _enforce_limit raises (count() or the DELETE fails: the file is
\* locked by another writer, the disk is full): the INSERT is committed
\* before, the call of _enforce_limit is not guarded, and the exception
\* leaves add
add_eviction_fails(a, t) ==
    /\ next_id < MaxIds
    /\ next_id' = next_id + 1
    /\ now' = t
    /\ LET row == AddField(NewMemory(a, next_id + 1, t), "rowid",
                           NextRowid(memories))
       IN Commit([db |-> SqlInsert(DB, row),
                  value |-> [raised |-> "OperationalError"]],
                 "add_eviction_fails", a)
    /\ UNCHANGED max_memories

\* a store that is opened again with another max_memories, read and
\* written, and whose eviction may fail
SpecEvict ==
    /\ Init
    /\ [][\/ NextReopen
          \/ list_all(ListDefaults)
          \/ \E q \in {x \in SearchInputs : x.query = Py /\ x.limit = 10} :
                 search(q)
          \/ \E a \in AddInputs : \E t \in now..MaxClock :
                 add_eviction_fails(a, t)]_vars

\* C31: a failure of the eviction step never fails the add that triggered
\* it: the add returns the created memory, and that memory stays stored.
C31_EvictionNeverFailsAdd ==
    [][op' = "add_eviction_fails" =>
          /\ result' = NewMemory(args', next_id', now')
          /\ \E r \in memories' : row_to_memory(r) = result'
    ]_vars

\* C40: eviction runs only as part of add.  Opening the store, get, update,
\* list, search and delete evict nothing (delete removes at most the id it
\* is given), so the count can stay above max_memories; an add that returns
\* leaves min(count + 1, max_memories) memories: when the count was at or
\* above max_memories it removes the whole excess and leaves exactly
\* max_memories.
C40_EvictionOnlyInAdd ==
    [][/\ op' \in {"open", "get", "update", "list_all", "search"}
            => StoredIds' = StoredIds /\ evicted' = {}
       /\ op' = "delete"
            => StoredIds' = StoredIds \ {args'.id} /\ evicted' = {}
       /\ op' = "add"
            => Cardinality(memories')
                 = Min2(Cardinality(memories) + 1, max_memories)
    ]_vars

\* an add on a store that held more memories than max_memories removed two
\* rows in one step and left exactly max_memories
C40_Witness ==
    /\ op = "add"
    /\ Cardinality(evicted) = 2
    /\ Cardinality(memories) = max_memories

(***************************************************************************)
(* The two lists of get_timeline.                                          *)
(***************************************************************************)
\* C32: get_timeline returns two lists, memories and summaries, each
\* ordered by creation epoch descending and each capped at limit on its
\* own: each holds min(limit, rows of its table in the window) entries, the
\* newest ones, whatever the length of the other list.
C32_TimelineLists ==
    op = "get_timeline" =>
        LET T == result.center_epoch
            inside(rows) ==
                {x \in rows :
                    /\ T - args.window_hours * Hour <= x.created_at_epoch
                    /\ x.created_at_epoch <= T + args.window_hours * Hour
                    /\ args.project # None => x.project = args.project}
            capped(l, rows) ==
                /\ Len(l) = Min2(args.limit, Cardinality(rows))
                /\ \A i, j \in DOMAIN l :
                      /\ i # j => l[i].id # l[j].id
                      /\ i < j => l[i].created_at_epoch
                                    >= l[j].created_at_epoch
                /\ \A i \in DOMAIN l : \E x \in rows : x.id = l[i].id
                /\ \A x \in rows :
                      (\A i \in DOMAIN l : l[i].id # x.id) =>
                          \A i \in DOMAIN l :
                              l[i].created_at_epoch >= x.created_at_epoch
        IN /\ capped(result.observations, inside(memories))
           /\ capped(result.summaries, inside(session_summaries))

\* with limit 1 the memory list is full and the summary list still holds
\* its one summary
C32_Witness ==
    /\ op = "get_timeline"
    /\ args.limit = 1
    /\ Len(result.observations) = 1
    /\ Len(result.summaries) = 1

(***************************************************************************)
(* get_context_for_session.                                                *)
(***************************************************************************)
Day == 86400000     \* 86400 * 1000 milliseconds

\* a context that carries the last summary whether or not it is asked for
store_get_context_always_summary(db, summaries, q, t) ==
    LET of_project == {s \in summaries :
                          Truthy(q.project) => s.project = q.project}
    IN {[observations |-> o, observation_count |-> Len(o)]
        @@ (IF u = <<>> THEN <<>> ELSE [last_summary |-> u[1]]) :
           o \in store_list_index(db, [limit |-> <<q.limit>>,
                                       project |-> q.project,
                                       since_epoch |-> <<t - q.days * Day>>]),
           u \in {SqlLimit(s, 1) : s \in OrderBy(of_project, "newest")}}

\* the dicts get_context_for_session may return when the clock reads t;
\* get_summaries(project, limit=1) orders by created_at_epoch DESC, and a
\* summary is given as its row (created_at is the epoch it was taken from)
store_get_context_for_session(db, summaries, q, t) ==
    LET of_project == {s \in summaries :
                          Truthy(q.project) => s.project = q.project}
    IN {[observations |-> o, observation_count |-> Len(o)]
        @@ (IF q.include_summaries /\ u # <<>>
            THEN [last_summary |-> u[1]] ELSE <<>>) :
           o \in store_list_index(db, [limit |-> <<q.limit>>,
                                       project |-> q.project,
                                       since_epoch |-> <<t - q.days * Day>>]),
           u \in {SqlLimit(s, 1) : s \in OrderBy(of_project, "newest")}}

\* the clock is read once, for since_epoch
get_context_for_session(q, t) ==
    /\ now' = t
    /\ \E value \in store_get_context_for_session(DB, session_summaries,
                                                  q, t) :
           /\ op' = "get_context_for_session"
           /\ args' = q
           /\ result' = value
    /\ evicted' = {}
    /\ UNCHANGED <<memories, memories_fts, max_memories, next_id, fts_table,
                   sessions, session_summaries, schema,
                   user_prompts, writers>>

\* memories and summaries of two projects, written and read at clock
\* readings either side of one day
SpecContext ==
    /\ InitQuery
    /\ [][\/ \E a \in TimelineAddInputs : \E t \in {0, 1, Day, Day + 1} :
                 t >= now /\ add(a, t)
          \/ \E a \in SummaryInputs : \E t \in {0, 1, Day, Day + 1} :
                 t >= now /\ add_summary(a, t)
          \/ \E q \in [project : {None, "alpha"}, limit : {1, 50},
                       include_summaries : BOOLEAN, days : {0, 1}] :
                 \E t \in {0, 1, Day, Day + 1} :
                     t >= now /\ get_context_for_session(q, t)]_vars

\* C33: get_context_for_session returns the list_index projection of the
\* memories of the given project (of every project when none is given)
\* whose creation epoch is at or after now minus `days` days, at most limit
\* of them, and carries a last_summary exactly when include_summaries is
\* true and a summary exists for that project; it is then a summary of
\* that project with the greatest creation epoch.
C33_ContextForSession ==
    op = "get_context_for_session" =>
        LET recent == {m \in memories :
                          /\ m.created_at_epoch >= now - args.days * Day
                          /\ args.project # None => m.project = args.project}
            of_project == {s \in session_summaries :
                              args.project # None =>
                                  s.project = args.project}
            obs == result.observations
        IN /\ Len(obs) = Min2(args.limit, Cardinality(recent))
           /\ result.observation_count = Len(obs)
           /\ \A i, j \in DOMAIN obs : i # j => obs[i].id # obs[j].id
           /\ \A i \in DOMAIN obs :
                 \E m \in recent : obs[i] = to_index(row_to_memory(m))
           /\ (\E k \in DOMAIN result : k = "last_summary")
                 <=> (args.include_summaries /\ of_project # {})
           /\ (\E k \in DOMAIN result : k = "last_summary") =>
                 /\ result.last_summary \in of_project
                 /\ \A s \in of_project :
                       s.created_at_epoch
                           <= result.last_summary.created_at_epoch

\* a memory created exactly one day before the call was returned and the
\* newer of two summaries came with it
C33_Witness ==
    /\ op = "get_context_for_session"
    /\ args.days = 1
    /\ now = Day
    /\ \E i \in DOMAIN result.observations :
          result.observations[i].created_at = 0
    /\ Cardinality(session_summaries) >= 1
    /\ \E k \in DOMAIN result : k = "last_summary"

(***************************************************************************)
(* create_session on a session that exists.                                *)
(***************************************************************************)
\* C39: a create_session call on an existing external id changes only
\* prompt_count (one more) and the latest prompt of that session: internal
\* id, project, started_at, status and completion timestamp stay, a session
\* already completed stays so, the project argument is ignored, and no
\* other session changes.
C39_CreateSessionFrame ==
    [][(op' = "create_session"
        /\ SessionOf(sessions, args'.session_id) # {}) =>
        \A old \in SessionOf(sessions, args'.session_id) :
            \E new \in sessions' :
                /\ sessions' \ {new} = sessions \ {old}
                /\ new.session_id = old.session_id
                /\ new.id = old.id
                /\ new.project = old.project
                /\ new.started_at_epoch = old.started_at_epoch
                /\ new.status = old.status
                /\ new.completed_at_epoch = old.completed_at_epoch
                /\ new.prompt_count = old.prompt_count + 1
                /\ new.user_prompt = args'.user_prompt
    ]_vars

\* a completed session took another prompt from a call that named another
\* project, and kept its project, status and completion timestamp
C39_Witness ==
    /\ op = "create_session"
    /\ \E r \in sessions :
          /\ r.session_id = args.session_id
          /\ r.project # args.project
          /\ r.status = "completed"
          /\ r.completed_at_epoch # <<>>
          /\ r.prompt_count >= 2
          /\ r.user_prompt = args.user_prompt

(***************************************************************************)
(* Sessions, summaries and prompts beside the memories.                    *)
(***************************************************************************)
\* an add_user_prompt under an enforced foreign key: the INSERT fails for a
\* session_id without a session
add_user_prompt_enforced(session_id, prompt_text, prompt_number, t) ==
    /\ next_id < MaxIds
    /\ next_id' = next_id + 1
    /\ now' = t
    /\ IF SessionOf(sessions, session_id) = {}
       THEN /\ user_prompts' = user_prompts
            /\ result' = [raised |-> "IntegrityError"]
       ELSE /\ user_prompts' =
                   user_prompts
                   \cup {[id |-> next_id + 1, session_id |-> session_id,
                          prompt_number |-> prompt_number,
                          prompt_text |-> prompt_text,
                          created_at_epoch |-> t]}
            /\ result' = [id |-> next_id + 1, session_id |-> session_id,
                          prompt_number |-> prompt_number]
    /\ op' = "add_user_prompt"
    /\ args' = [session_id |-> session_id, prompt_text |-> prompt_text,
                prompt_number |-> prompt_number]
    /\ evicted' = {}
    /\ UNCHANGED <<memories, memories_fts, max_memories, fts_table, sessions,
                   session_summaries, schema, writers>>

\* add_user_prompt inserts one row under a fresh uuid; the session_id is
\* not looked up, and the connection leaves foreign keys off
add_user_prompt(session_id, prompt_text, prompt_number, t) ==
    /\ next_id < MaxIds
    /\ next_id' = next_id + 1
    /\ now' = t
    /\ user_prompts' =
           user_prompts
           \cup {[id |-> next_id + 1, session_id |-> session_id,
                  prompt_number |-> prompt_number,
                  prompt_text |-> prompt_text, created_at_epoch |-> t]}
    /\ op' = "add_user_prompt"
    /\ args' = [session_id |-> session_id, prompt_text |-> prompt_text,
                prompt_number |-> prompt_number]
    /\ result' = [id |-> next_id + 1, session_id |-> session_id,
                  prompt_number |-> prompt_number]
    /\ evicted' = {}
    /\ UNCHANGED <<memories, memories_fts, max_memories, fts_table, sessions,
                   session_summaries, schema, writers>>

\* memories with their eviction, one session, and summaries and prompts
\* for that session and for one that is never created
SpecRecords ==
    /\ Init
    /\ [][\/ \E t \in now..MaxClock :
                 add([AddDefaults EXCEPT !.content = Py,
                                         !.session_id = "s1"], t)
          \/ \E id \in Ids : get(id)
          \/ \E id \in Ids : update(id, ("content" :> Js))
          \/ \E id \in Ids : delete(id)
          \/ \E t \in now..MaxClock : create_session("s1", "alpha", Py, t)
          \/ \E t \in now..MaxClock : complete_session("s1", "completed", t)
          \/ \E a \in SummaryInputs : \E t \in now..MaxClock :
                 add_summary(a, t)
          \/ \E sid \in SessionIds : \E t \in now..MaxClock :
                 add_user_prompt(sid, Js, 1, t)
       ]_vars

\* C34: no operation removes or modifies a stored summary or prompt, and
\* none removes a session; add, get, update and delete of memories, with
\* the eviction of add, leave sessions, summaries and prompts unchanged;
\* add_summary and add_user_prompt add one row to their table and leave the
\* rest as it is.
C34_RecordsAppendOnly ==
    [][/\ session_summaries \subseteq session_summaries'
       /\ user_prompts \subseteq user_prompts'
       /\ \A r \in sessions :
             \E q \in sessions' : q.id = r.id /\ q.session_id = r.session_id
       /\ op' \in {"add", "get", "update", "delete"} =>
             UNCHANGED <<sessions, session_summaries, user_prompts>>
       /\ op' = "add_summary" =>
             /\ Cardinality(session_summaries')
                  = Cardinality(session_summaries) + 1
             /\ UNCHANGED <<sessions, user_prompts, memories>>
       /\ op' = "add_user_prompt" =>
             /\ Cardinality(user_prompts') = Cardinality(user_prompts) + 1
             /\ UNCHANGED <<sessions, session_summaries, memories>>
    ]_vars

\* an add evicted a memory of session s1 while a summary and a session
\* were stored, and both are still there
C34_Witness ==
    /\ op = "add"
    /\ evicted # {}
    /\ sessions # {}
    /\ session_summaries # {}

\* C36: add_summary and add_user_prompt succeed and store their row under
\* the session id they are given, whether or not create_session registered
\* it: no session is looked up and none is created.
C36_NoSessionCheck ==
    [][/\ op' = "add_summary" =>
             /\ result' \in session_summaries'
             /\ result'.session_id = args'.session_id
             /\ result'.id = next_id'
             /\ sessions' = sessions
       /\ op' = "add_user_prompt" =>
             /\ \E p \in user_prompts' :
                   /\ p.id = result'.id
                   /\ p.session_id = args'.session_id
                   /\ p.prompt_text = args'.prompt_text
             /\ result'.id = next_id'
             /\ sessions' = sessions
    ]_vars

\* a prompt was stored for a session id no create_session call had seen,
\* beside a session with another id
C36_Witness ==
    /\ op = "add_user_prompt"
    /\ SessionOf(sessions, args.session_id) = {}
    /\ sessions # {}
    /\ \E p \in user_prompts : p.session_id = args.session_id

(***************************************************************************)
(* Two writers on one file.                                                *)
(*                                                                         *)
(* Each writer is a process with its own MemoryStore on the same path and  *)
(* the same max_memories, and makes one call.  SQLite runs one statement,  *)
(* and one transaction with its commit, at a time; between the statements  *)
(* and between the units of work of a call the other writer may run.  In   *)
(* these steps op, args and result name the last step taken and what it    *)
(* read or returned.                                                       *)
(***************************************************************************)
\* writer w moves on to state next; name and value go to the history
WriterStep(w, next, name, value) ==
    /\ writers' = [writers EXCEPT ![w] = next]
    /\ op' = name
    /\ args' = [writer |-> w]
    /\ result' = value
    /\ UNCHANGED <<max_memories, fts_table, sessions, session_summaries,
                   schema, user_prompts>>

\* get, first statement: SELECT * FROM memories WHERE id = ?
get_select(w, id) ==
    /\ writers[w].pc = "idle"
    /\ IF Lookup(memories, id) = {}
       THEN WriterStep(w, [pc |-> "done", call |-> "get", id |-> id,
                           returned |-> <<>>], "get_select", <<>>)
       ELSE LET row == CHOOSE r \in Lookup(memories, id) : TRUE
            IN WriterStep(w, [pc |-> "get_selected", id |-> id,
                              row |-> row], "get_select", <<row>>)
    /\ evicted' = {}
    /\ UNCHANGED <<memories, memories_fts, next_id, now>>

\* a get that writes back the count it read plus one
get_update_from_read(w) ==
    /\ writers[w].pc = "get_selected"
    /\ LET me == writers[w]
           rows == Lookup(memories, me.id)
           db == IF rows = {} THEN DB
                 ELSE LET row == CHOOSE r \in rows : TRUE
                      IN SqlUpdate(DB, row,
                                   [row EXCEPT !.accessed_count =
                                        me.row.accessed_count + 1])
       IN /\ memories' = db.m
          /\ memories_fts' = db.f
          /\ WriterStep(w, [pc |-> "done", call |-> "get", id |-> me.id,
                            returned |-> <<row_to_memory(me.row)>>],
                        "get_update", <<row_to_memory(me.row)>>)
    /\ evicted' = {}
    /\ UNCHANGED <<next_id, now>>

\* get, second statement and commit: UPDATE memories SET accessed_count =
\* accessed_count + 1 WHERE id = ?, on the row as it is stored by then; the
\* call returns the row it selected
get_update(w) ==
    /\ writers[w].pc = "get_selected"
    /\ LET me == writers[w]
           rows == Lookup(memories, me.id)
           db == IF rows = {} THEN DB
                 ELSE LET row == CHOOSE r \in rows : TRUE
                      IN SqlUpdate(DB, row,
                                   [row EXCEPT !.accessed_count = @ + 1])
       IN /\ memories' = db.m
          /\ memories_fts' = db.f
          /\ WriterStep(w, [pc |-> "done", call |-> "get", id |-> me.id,
                            returned |-> <<row_to_memory(me.row)>>],
                        "get_update", <<row_to_memory(me.row)>>)
    /\ evicted' = {}
    /\ UNCHANGED <<next_id, now>>

\* add, first unit of work: the INSERT and its commit
add_insert(w, a, t) ==
    /\ writers[w].pc = "idle"
    /\ next_id' = next_id + 1
    /\ now' = t
    /\ LET memory == NewMemory(a, next_id + 1, t)
           db == SqlInsert(DB, AddField(memory, "rowid",
                                        NextRowid(memories)))
       IN /\ memories' = db.m
          /\ memories_fts' = db.f
          /\ WriterStep(w, [pc |-> "add_inserted", memory |-> memory],
                        "add_insert", <<>>)
    /\ evicted' = {}

\* _enforce_limit, first unit of work: count = self.count(), and the
\* return when count <= self.max_memories
enforce_limit_count(w) ==
    /\ writers[w].pc = "add_inserted"
    /\ IF count(DB) <= max_memories
       THEN WriterStep(w, [pc |-> "done", call |-> "add",
                           returned |-> writers[w].memory],
                       "enforce_limit_count", count(DB))
       ELSE WriterStep(w, [pc |-> "add_counted",
                           memory |-> writers[w].memory,
                           to_remove |-> count(DB) - max_memories],
                       "enforce_limit_count", count(DB))
    /\ evicted' = {}
    /\ UNCHANGED <<memories, memories_fts, next_id, now>>

\* _enforce_limit, second unit of work: the DELETE with LIMIT to_remove, as
\* computed from the count read before, and its commit; add then returns
enforce_limit_delete(w) ==
    /\ writers[w].pc = "add_counted"
    /\ \E V \in FirstRows(memories, writers[w].to_remove) :
          /\ memories' = SqlDelete(DB, V).m
          /\ memories_fts' = SqlDelete(DB, V).f
          /\ evicted' = {r.id : r \in V}
    /\ WriterStep(w, [pc |-> "done", call |-> "add",
                      returned |-> writers[w].memory],
                  "enforce_limit_delete", writers[w].memory)
    /\ UNCHANGED <<next_id, now>>

\* a store that holds max_memories = 1 memories, never read, and two
\* writers about to call
InitRace ==
    /\ max_memories = 1
    /\ LET db == SqlInsert([m |-> {}, f |-> EmptyBag],
                           AddField(NewMemory([AddDefaults EXCEPT
                                                   !.content = Py], 1, 0),
                                    "rowid", 1))
       IN memories = db.m /\ memories_fts = db.f
    /\ next_id = 1
    /\ now = 0
    /\ op = "open"
    /\ args = <<>>
    /\ result = <<>>
    /\ evicted = {}
    /\ fts_table = TRUE
    /\ sessions = {}
    /\ session_summaries = {}
    /\ schema = Migrated
    /\ user_prompts = {}
    /\ writers = [w \in {1, 2} |-> [pc |-> "idle"]]

SpecRace ==
    /\ InitRace
    /\ [][\E w \in {1, 2} :
            \/ \E id \in Ids : get_select(w, id)
            \/ get_update(w)
            \/ \E a \in {[AddDefaults EXCEPT !.content = Js],
                         [AddDefaults EXCEPT !.content = Tip,
                                             !.importance = 9]} :
                   \E t \in now..MaxClock : add_insert(w, a, t)
            \/ enforce_limit_count(w)
            \/ enforce_limit_delete(w)]_vars

\* C35: for every interleaving of two get calls on the same stored id by
\* two writers, the stored accessed_count after both have completed is 2
\* higher than before (the memory had never been read: it is 2).
C35_ConcurrentGets ==
    (/\ \A w \in {1, 2} : writers[w].pc = "done" /\ writers[w].call = "get"
     /\ writers[1].id = 1
     /\ writers[2].id = 1) =>
        /\ Cardinality(Lookup(memories, 1)) = 1
        /\ AccessedOf(1) = 2

\* both gets selected the row before either wrote: both returned
\* accessed_count 0, and the stored count is 2
C35_Witness ==
    /\ \A w \in {1, 2} :
          /\ writers[w].pc = "done"
          /\ writers[w].call = "get"
          /\ writers[w].returned # <<>>
          /\ writers[w].returned[1].accessed_count = 0
    /\ AccessedOf(1) = 2

\* C38: for every interleaving of two add calls by two writers on a store
\* that holds max_memories memories, the count after both have completed
\* is exactly max_memories.
C38_ConcurrentAdds ==
    (\A w \in {1, 2} : writers[w].pc = "done" /\ writers[w].call = "add")
        => Cardinality(memories) = max_memories
====
